---- MODULE Spec2Model ----
(***************************************************************************)
(* Verification model of the sqlx PostgreSQL connection engine:            *)
(*   - the background I/O worker (connection/worker/mod.rs), its request   *)
(*     channel, backlog and per-request response pipes,                    *)
(*   - the shared statement cache (connection/stmt_cache.rs),              *)
(*   - the transaction manager (transaction.rs).                           *)
(***************************************************************************)
EXTENDS Integers, Sequences, FiniteSets, TLC

\* ------------------------------------------------------------------------
\* Bounds of the model
\* ------------------------------------------------------------------------
MaxReq == 2      \* requests submitted through start_pipe
MaxAsync == 1    \* asynchronous frames the server emits on its own
MaxTasks == 3    \* tasks that execute statements on one connection
MaxSql == 2      \* distinct SQL texts
CacheCapacity == 1   \* statement_cache_capacity
MaxFrames == 3   \* frames the server sends to one response stream
MaxQueries == 3  \* queries pushed to one pipeline
MaxDepth == 2    \* nesting of transactions
MaxOps == 6      \* transaction operations called on one connection
MaxOid == 2      \* custom types in the catalog
MaxFields == 2   \* attributes of a composite type
MaxTables == 3   \* tables of one FROM item

\* `for _ in 0..2` in SharedStatementCache::get
GetTurns == 2

\* ------------------------------------------------------------------------
\* State
\* ------------------------------------------------------------------------
VARIABLES
  \* --- connection handle (connection/mod.rs) ---
  reqs,                \* the IoRequests built by start_pipe, in submission order
  chan,                \* UnboundedSender/Receiver<IoRequest>: ids in the channel
  chanClosed,          \* close_channel() was called
  last_start,          \* result of the most recent start_pipe
  \* --- Worker (connection/worker/mod.rs) ---
  alive,               \* the worker future has not returned
  state,               \* WorkerState
  should_flush,
  back_log,
  currently_handling,  \* 0 is None
  wbuf,                \* socket write buffer (request ids, Terminate)
  rbuf,                \* socket read buffer: complete frames not yet parsed
  notif_chan,          \* notifications forwarded to the connection
  sender,              \* sender[r]: the IoRequest of r (and its chan) still exists
  fwd,                 \* fwd[r]: frames the worker passed to unbounded_send for r
  endedBy,             \* endedBy[r]: format of the frame on which r was popped
  \* --- server and socket ---
  srvIn,               \* flushed bytes the server has not answered yet
  srvPos,              \* frames of the front request's answer already emitted
  net,                 \* frames emitted by the server, not yet read
  rfqSeq,              \* number of ReadyForQuery frames emitted so far
  asyncLeft,
  \* --- Pipe (connection/worker/pipe.rs) ---
  dl,                  \* dl[r]: frames queued into r's response channel
  rd,                  \* rd[r]: how many of them the pipe has taken
  pst                  \* pst[r]: "none" | "open" | "dropped" | "crashed"

VARIABLES
  \* --- SharedStatementCache (connection/stmt_cache.rs) ---
  cache,               \* entries [sql, status, id], least recently used first
  events_set,          \* the events on which set() was called
  next_event,          \* events created so far
  next_statement_id,   \* statement ids handed out so far
  tpc,                 \* tpc[t]: where task t is in get_or_prepare
  tsql,                \* tsql[t]: the SQL text t executes
  persistent,          \* persistent[t]: store_to_cache of t's call
  turns,               \* turns[t]: turns of the loop in get that t has finished
  waiting,             \* waiting[t]: the event t waits on
  tstmt,               \* tstmt[t]: the statement id of t's prepare
  tclose,              \* tclose[t]: the statement id t sends Close for
  parses,              \* parses[s]: Parse messages for s handed to start_pipe
  failures,            \* failures[s]: prepares of s that returned an error
  evicted,             \* evicted[s]: entries of s displaced or cleared
  displaced,           \* statement ids of Cached entries that left the cache
  closed,              \* statement ids closed on the server
  \* --- PgTransactionManager (transaction.rs) ---
  transaction_depth,
  transaction_status,  \* "Idle" | "Transaction" | "Error", from ReadyForQuery
  txq,                 \* statements queued to the server, oldest first
  txop,                \* the operation that awaits its statement, or "none"
  txres,               \* the server's answer to the awaited statement
  tx_last,             \* what the last operation returned
  srvTx,               \* the server's transaction status
  srvSp,               \* the server's savepoints, oldest first
  okBegin,             \* BEGIN/SAVEPOINT statements that succeeded
  okEnd,               \* COMMIT/ROLLBACK/RELEASE statements that succeeded
  opsLeft,
  worker_gone,         \* the worker's end of the request channel is gone
  panicked,            \* a panic unwinds the caller
  \* --- the response stream of PgConnection::run (executor.rs) ---
  rs_pipe,             \* frames forwarded to the statement's pipe, not yet received
  rs_left,             \* frames the worker may still forward
  rs_read,             \* the frames the stream has received, oldest first
  rs_items,            \* the items the stream has yielded
  rs_state,            \* "running" | "done" | "failed"
  \* --- the pipelined engine (pipeline/) ---
  queries,             \* the QueryStates pushed, in order; a finished one is None
  cur,                 \* the query the engine visits next in this iteration
  inbound,             \* the frames the server has sent, not yet received
  preparing,           \* SQL texts registered as being prepared
  cache_statement,     \* the statement cache: the statement id of a SQL text, or 0
  results,             \* results[q]: what q's sender has sent to its caller
  hung,                \* the engine awaits a frame that will not come
  rx,                  \* Command::Query messages sent and not yet received
  running,             \* main_loop has been spawned
  polled,              \* the loop has visited a query while a command waited
  write_buffer,        \* message groups written and not yet flushed
  has_flushed,         \* JoinManager: the buffer was flushed this iteration
  next_stmt_id,        \* the connection's next statement id
  stmt_ids,            \* the statement ids handed out, in order
  visits,              \* the live queries visited in the last iteration, in order
  flushes,             \* the number of flushes in the last iteration
  tick_over,           \* the last iteration has ended
  tick_len,            \* the number of queries the last iteration looped over
  parse_sent,          \* parse_sent[s]: Parse messages written for SQL text s
  parse_failed,        \* parse_failed[s]: prepares of s that returned an error
  together,            \* the queries main_loop started with, all of them cached
  wire,                \* frames the server has sent that have not arrived yet
  \* --- FillCache (pipeline/state.rs, pipeline/cache.rs) ---
  fc_step,             \* the step of the query that needs the types
  fc_oids,             \* the OIDs it fetches
  fc_named,            \* the type names it fetches
  fetched,             \* the rows the nested query has yielded
  name_row,            \* the OID of the row that carries the type name, or 0
  cache_type_info,     \* OIDs whose type is in the connection's type cache
  cache_type_oid,      \* type names whose OID is in the connection's cache
  fc_sent,             \* what the query's caller has been sent
  \* --- nullability analysis (sqlx-nullable) ---
  nl_joins,            \* the joins of the FROM item of the SELECT
  nl_selection,        \* its WHERE
  nl_step,             \* "Query", or how get_nullable ended
  nl_nullable,         \* the nullability reported for every column
  \* --- sqlx-nullable: the report of a statement ---
  rp_joins,            \* the joins of the FROM every arm reads
  rp_arms,             \* the projections of the arms, in statement order
  rp_step,             \* From, Arms, or how get_nullable ended
  rp_nullables,        \* StatementNullable::nullables, in analysis order
  rp_result            \* the vector get_nullable returned

workerVars == <<reqs, chan, chanClosed, last_start, alive, state, should_flush,
                back_log, currently_handling, wbuf, rbuf, notif_chan, sender,
                fwd, endedBy, srvIn, srvPos, net, rfqSeq, asyncLeft, dl, rd, pst>>

cacheVars == <<cache, events_set, next_event, next_statement_id, tpc, tsql,
               persistent, turns, waiting, tstmt, tclose, parses, failures,
               evicted, displaced, closed>>

txFail == <<worker_gone, panicked>>

txVars == <<transaction_depth, transaction_status, txq, txop, txres, tx_last,
            srvTx, srvSp, okBegin, okEnd, opsLeft, txFail>>

streamVars == <<rs_pipe, rs_left, rs_read, rs_items, rs_state>>

pipelineVars == <<queries, cur, inbound, preparing, cache_statement, results,
                  hung, rx, running, polled, write_buffer, has_flushed,
                  next_stmt_id, stmt_ids, visits, flushes, tick_over, tick_len,
                  parse_sent, parse_failed, together, wire>>

fillVars == <<fc_step, fc_oids, fc_named, fetched, name_row, cache_type_info,
              cache_type_oid, fc_sent>>

nullVars == <<nl_joins, nl_selection, nl_step, nl_nullable>>

reportVars == <<rp_joins, rp_arms, rp_step, rp_nullables, rp_result>>

vars == <<workerVars, cacheVars, txVars, streamVars, pipelineVars, fillVars,
          nullVars, reportVars>>

Ids == 1..MaxReq

\* The Terminate message in the byte streams (request ids are 1, 2, ...).
Terminate == 0

\* ------------------------------------------------------------------------
\* Requests and frames
\* ------------------------------------------------------------------------
\* PipeUntil; "None" is the zero-response predicate the worker tests for,
\* "RfqOrCopyIn" is RfqOr(CopyInResponse), "NumResponses" is NumResponses(1)
\* and "NumResponses0" is NumResponses(0), which clear_cached_statements
\* hands over when it has closed nothing.
PipeUntil ==
  {"None", "ReadyForQuery", "RfqOrCopyIn", "NumResponses", "NumResponses0"}

AsyncFormats == {"NotificationResponse", "NoticeResponse", "ParameterStatus"}

\* IoRequest::handle_done for a request that has had `count` frames forwarded
\* before this one.
handle_done(send_until, count, format) ==
  CASE send_until = "NumResponses"  -> count + 1 = 1
    [] send_until = "ReadyForQuery" -> format = "ReadyForQuery"
    [] send_until = "RfqOrCopyIn"   -> format \in {"CopyInResponse", "ReadyForQuery"}
    [] OTHER                        -> FALSE

\* What callers hand to start_pipe, with the answer the server gives to the
\* bytes of the request.
ReqKinds ==
  { [pipe_until |-> "ReadyForQuery", resp |-> <<"ReadyForQuery">>],
    [pipe_until |-> "ReadyForQuery", resp |-> <<"DataRow", "ReadyForQuery">>],
    [pipe_until |-> "ReadyForQuery", resp |-> <<"ErrorResponse", "ReadyForQuery">>],
    [pipe_until |-> "ReadyForQuery", resp |-> <<"CopyInResponse">>],
    [pipe_until |-> "RfqOrCopyIn",   resp |-> <<"CopyInResponse">>],
    [pipe_until |-> "NumResponses",  resp |-> <<"DataRow">>],
    [pipe_until |-> "None",          resp |-> <<>>],
    [pipe_until |-> "NumResponses0", resp |-> <<>>] }

Frame(f, o, n) == [fmt |-> f, owner |-> o, k |-> n]

\* The element of a one-element set.
The(S) == CHOOSE v \in S : TRUE

Formats(s) == [i \in 1..Len(s) |-> s[i].fmt]

\* ------------------------------------------------------------------------
\* Worker::get_next_messages over the complete frames of the read buffer:
\* the kind of batch and the number of frames split off the buffer.
\* ------------------------------------------------------------------------
RECURSIVE scan_messages(_, _, _)
scan_messages(buf, start, index) ==
  IF start + 1 > Len(buf)
  THEN IF index = 0 THEN [kind |-> "continue", n |-> 0]
                    ELSE [kind |-> "not_done", n |-> start]
  ELSE LET format == buf[start + 1].fmt IN
       CASE format \in {"ReadyForQuery", "CopyInResponse"} ->
              [kind |-> "done", n |-> start + 1]
         [] format = "NotificationResponse" ->
              IF index = 0 THEN [kind |-> "notification", n |-> start + 1]
                           ELSE [kind |-> "not_done", n |-> start]
         [] OTHER -> scan_messages(buf, start + 1, index + 1)

\* A scan that takes a leading NoticeResponse for the end of an answer.
get_next_messages_notice_ends(buf) ==
  IF buf # <<>> /\ buf[1].fmt = "NoticeResponse"
  THEN [kind |-> "done", n |-> 1]
  ELSE scan_messages(buf, 0, 0)

get_next_messages(buf) == scan_messages(buf, 0, 0)

\* ------------------------------------------------------------------------
\* Worker::send_back on the worker record w
\* ------------------------------------------------------------------------
Deliver(w, r, batch) ==
  [w EXCEPT !.fwd[r] = @ + Len(batch),
            !.dl[r] = IF pst[r] = "dropped" THEN @ ELSE @ \o batch]

\* A send_back that takes the newest request of the backlog.
send_back_newest(w, batch) ==
  IF w.currently_handling # 0
  THEN Deliver(w, w.currently_handling, batch)
  ELSE IF w.back_log # <<>>
       THEN Deliver([w EXCEPT !.currently_handling = w.back_log[Len(w.back_log)],
                              !.back_log = SubSeq(w.back_log, 1, Len(w.back_log) - 1)],
                    w.back_log[Len(w.back_log)], batch)
       ELSE w

send_back(w, batch) ==
  IF w.currently_handling # 0
  THEN Deliver(w, w.currently_handling, batch)
  ELSE IF w.back_log # <<>>
       THEN Deliver([w EXCEPT !.currently_handling = Head(w.back_log),
                              !.back_log = Tail(w.back_log)],
                    Head(w.back_log), batch)
       ELSE w

\* ------------------------------------------------------------------------
\* Worker::poll_backlog: the loop over poll_next_message.  `pending` is set
\* when the loop ends because the socket has no complete frame left.
\* ------------------------------------------------------------------------
Retire(w, format) ==
  IF w.currently_handling = 0 THEN w
  ELSE [w EXCEPT !.sender[w.currently_handling] = FALSE,
                 !.endedBy[w.currently_handling] = format]

RECURSIVE poll_backlog(_)
poll_backlog(w) ==
  LET m     == get_next_messages(w.rbuf)
      batch == SubSeq(w.rbuf, 1, m.n)
      rest  == SubSeq(w.rbuf, m.n + 1, Len(w.rbuf))
  IN
  CASE m.kind = "continue" -> [w EXCEPT !.pending = TRUE]
    [] m.kind = "notification" ->
         The({poll_backlog(x) :
                x \in {[w EXCEPT !.rbuf = rest, !.notif_chan = @ + 1]}})
    [] m.kind = "not_done" ->
         The({poll_backlog(x) : x \in {send_back([w EXCEPT !.rbuf = rest], batch)}})
    [] OTHER ->
         The({ IF w2.back_log # <<>>
               THEN poll_backlog([w2 EXCEPT !.currently_handling = Head(w2.back_log),
                                            !.back_log = Tail(w2.back_log)])
               ELSE [w2 EXCEPT !.currently_handling = 0] :
               w2 \in {Retire(send_back([w EXCEPT !.rbuf = rest], batch),
                              batch[Len(batch)].fmt)} })

\* ------------------------------------------------------------------------
\* Worker::poll_receiver with Worker::poll_next_request
\* ------------------------------------------------------------------------
\* A poll_receiver that starts the shutdown as soon as the channel is closed,
\* without taking the requests still queued in it.
poll_receiver_closes_early(w) ==
  IF w.state = "Open" /\ chanClosed
  THEN [w EXCEPT !.wbuf = Append(@, Terminate),
                 !.state = "Closing",
                 !.should_flush = TRUE]
  ELSE w

RECURSIVE poll_receiver(_)
poll_receiver(w) ==
  IF w.state # "Open" THEN w
  ELSE IF w.chan # <<>>
       THEN LET msg == Head(w.chan) IN
            The({poll_receiver(x) : x \in {
              [w EXCEPT !.chan = Tail(w.chan),
                        !.wbuf = Append(@, msg),
                        !.should_flush = TRUE,
                        !.back_log = IF reqs[msg].pipe_until # "None"
                                     THEN Append(@, msg) ELSE @,
                        !.sender[msg] = reqs[msg].pipe_until # "None"]}})
       ELSE IF chanClosed
            THEN [w EXCEPT !.wbuf = Append(@, Terminate),
                           !.state = "Closing",
                           !.should_flush = TRUE]
            ELSE w

\* ------------------------------------------------------------------------
\* Worker::handle_poll_flush; n is the part of the write buffer the socket
\* takes in this poll: all of it (poll_flush is Ready) or none (Pending).
\* ------------------------------------------------------------------------
handle_poll_flush(w, n) ==
  IF w.should_flush
  THEN [w EXCEPT !.srvIn = @ \o SubSeq(w.wbuf, 1, n),
                 !.wbuf = SubSeq(w.wbuf, n + 1, Len(w.wbuf)),
                 !.should_flush = (n < Len(w.wbuf))]
  ELSE w

WorkerRec ==
  [rbuf |-> rbuf, back_log |-> back_log, currently_handling |-> currently_handling,
   chan |-> chan, wbuf |-> wbuf, should_flush |-> should_flush, state |-> state,
   notif_chan |-> notif_chan, sender |-> sender, fwd |-> fwd, endedBy |-> endedBy,
   dl |-> dl, srvIn |-> srvIn, pending |-> FALSE]

\* ------------------------------------------------------------------------
\* Initial state: Worker::spawn and PgConnection::new
\* ------------------------------------------------------------------------
InitWorker ==
  /\ reqs = <<>> /\ chan = <<>> /\ chanClosed = FALSE /\ last_start = "none"
  /\ alive = TRUE /\ state = "Open" /\ should_flush = FALSE
  /\ back_log = <<>> /\ currently_handling = 0
  /\ wbuf = <<>> /\ rbuf = <<>> /\ notif_chan = 0
  /\ sender = [r \in Ids |-> FALSE]
  /\ fwd = [r \in Ids |-> 0]
  /\ endedBy = [r \in Ids |-> "-"]
  /\ srvIn = <<>> /\ srvPos = 0 /\ net = <<>> /\ rfqSeq = 0
  /\ asyncLeft = MaxAsync
  /\ dl = [r \in Ids |-> <<>>]
  /\ rd = [r \in Ids |-> 0]
  /\ pst = [r \in Ids |-> "none"]

\* ------------------------------------------------------------------------
\* PgConnection::start_pipe (with MessageBuf::finish) and close
\* ------------------------------------------------------------------------
start_pipe(kind) ==
  /\ ~chanClosed
  /\ IF alive
     THEN /\ Len(reqs) < MaxReq
          /\ reqs' = Append(reqs, kind)
          /\ chan' = Append(chan, Len(reqs) + 1)
          /\ sender' = [sender EXCEPT ![Len(reqs) + 1] = TRUE]
          /\ pst' = [pst EXCEPT ![Len(reqs) + 1] = "open"]
          /\ last_start' = "ok"
     ELSE /\ last_start' = "WorkerCrashed"
          /\ UNCHANGED <<reqs, chan, sender, pst>>
  /\ UNCHANGED <<chanClosed, alive, state, should_flush, back_log,
                 currently_handling, wbuf, rbuf, notif_chan, fwd, endedBy,
                 srvIn, srvPos, net, rfqSeq, asyncLeft, dl, rd>>
  /\ UNCHANGED <<cacheVars, txVars, streamVars, pipelineVars, fillVars, nullVars, reportVars>>

StartPipe == \E kind \in ReqKinds : start_pipe(kind)

close ==
  /\ ~chanClosed
  /\ chanClosed' = TRUE
  /\ UNCHANGED <<reqs, chan, last_start, alive, state, should_flush, back_log,
                 currently_handling, wbuf, rbuf, notif_chan, sender, fwd,
                 endedBy, srvIn, srvPos, net, rfqSeq, asyncLeft, dl, rd, pst>>
  /\ UNCHANGED <<cacheVars, txVars, streamVars, pipelineVars, fillVars, nullVars, reportVars>>

\* ------------------------------------------------------------------------
\* impl Future for Worker: one call of poll.  n frames are readable on the
\* socket during the call; io_err says whether the read that follows the last
\* complete frame fails.
\* ------------------------------------------------------------------------
Install(w) ==
  /\ rbuf' = w.rbuf /\ back_log' = w.back_log
  /\ currently_handling' = w.currently_handling
  /\ chan' = w.chan /\ wbuf' = w.wbuf /\ should_flush' = w.should_flush
  /\ state' = w.state /\ notif_chan' = w.notif_chan /\ sender' = w.sender
  /\ fwd' = w.fwd /\ endedBy' = w.endedBy /\ dl' = w.dl /\ srvIn' = w.srvIn

\* A worker whose response senders outlive it.
Dropped_senders_kept(w) ==
  [w EXCEPT !.chan = <<>>, !.back_log = <<>>, !.currently_handling = 0,
            !.rbuf = <<>>, !.wbuf = <<>>, !.should_flush = FALSE]

\* The future returned an error: the Worker and everything it owns is dropped.
Dropped(w) ==
  [w EXCEPT !.sender = [r \in Ids |-> FALSE],
            !.chan = <<>>, !.back_log = <<>>, !.currently_handling = 0,
            !.rbuf = <<>>, !.wbuf = <<>>, !.should_flush = FALSE]

poll(n, io_err) ==
  /\ alive
  /\ \E w0 \in {[WorkerRec EXCEPT !.rbuf = @ \o SubSeq(net, 1, n)]} :
     \E w1 \in {poll_backlog(w0)} :
        /\ net' = SubSeq(net, n + 1, Len(net))
        /\ IF io_err /\ w1.pending
           THEN /\ alive' = FALSE
                /\ \E w \in {Dropped(w1)} : Install(w)
           ELSE /\ alive' = TRUE
                /\ \E w2 \in {poll_receiver(w1)} :
                   \E k \in {0, Len(w2.wbuf)} :
                      /\ (~w2.should_flush => k = 0)
                      /\ \E w \in {handle_poll_flush(w2, k)} : Install(w)
  /\ UNCHANGED <<reqs, chanClosed, last_start, srvPos, rfqSeq, asyncLeft, rd, pst>>
  /\ UNCHANGED <<cacheVars, txVars, streamVars, pipelineVars, fillVars, nullVars, reportVars>>

WorkerPoll == \E n \in 0..Len(net) : poll(n, FALSE)

WorkerFail == \E n \in 0..Len(net) : poll(n, TRUE) /\ ~alive'

\* ------------------------------------------------------------------------
\* The server: answers flushed requests in order, frame by frame
\* ------------------------------------------------------------------------
ServerAnswer ==
  /\ srvIn # <<>> /\ Head(srvIn) # Terminate
  /\ LET r == Head(srvIn)
         resp == reqs[r].resp
     IN /\ srvPos < Len(resp)
        /\ LET f == resp[srvPos + 1]
               n == IF f = "ReadyForQuery" THEN rfqSeq + 1 ELSE 0
           IN /\ net' = Append(net, Frame(f, r, n))
              /\ rfqSeq' = IF f = "ReadyForQuery" THEN rfqSeq + 1 ELSE rfqSeq
        /\ IF srvPos + 1 = Len(resp)
           THEN srvIn' = Tail(srvIn) /\ srvPos' = 0
           ELSE srvIn' = srvIn /\ srvPos' = srvPos + 1
  /\ UNCHANGED <<reqs, chan, chanClosed, last_start, alive, state, should_flush,
                 back_log, currently_handling, wbuf, rbuf, notif_chan, sender,
                 fwd, endedBy, asyncLeft, dl, rd, pst>>
  /\ UNCHANGED <<cacheVars, txVars, streamVars, pipelineVars, fillVars, nullVars, reportVars>>

\* Bytes that have no answer: a zero-response request, or Terminate.
ServerConsume ==
  /\ srvIn # <<>>
  /\ IF Head(srvIn) = Terminate THEN TRUE ELSE reqs[Head(srvIn)].resp = <<>>
  /\ srvIn' = Tail(srvIn)
  /\ UNCHANGED <<reqs, chan, chanClosed, last_start, alive, state, should_flush,
                 back_log, currently_handling, wbuf, rbuf, notif_chan, sender,
                 fwd, endedBy, srvPos, net, rfqSeq, asyncLeft, dl, rd, pst>>
  /\ UNCHANGED <<cacheVars, txVars, streamVars, pipelineVars, fillVars, nullVars, reportVars>>

ServerAsync ==
  /\ asyncLeft > 0
  /\ \E f \in AsyncFormats : net' = Append(net, Frame(f, 0, 0))
  /\ asyncLeft' = asyncLeft - 1
  /\ UNCHANGED <<reqs, chan, chanClosed, last_start, alive, state, should_flush,
                 back_log, currently_handling, wbuf, rbuf, notif_chan, sender,
                 fwd, endedBy, srvIn, srvPos, rfqSeq, dl, rd, pst>>
  /\ UNCHANGED <<cacheVars, txVars, streamVars, pipelineVars, fillVars, nullVars, reportVars>>

\* ------------------------------------------------------------------------
\* Pipe::poll_recv over Pipe::poll_next: ParameterStatus and NoticeResponse
\* are handled and skipped, any other frame is returned (an ErrorResponse as
\* Err(Database)); an empty channel whose sender is gone is WorkerCrashed.
\* ------------------------------------------------------------------------
RECURSIVE skip_async(_, _)
skip_async(s, p) ==
  IF p < Len(s) /\ s[p + 1].fmt \in {"ParameterStatus", "NoticeResponse"}
  THEN skip_async(s, p + 1) ELSE p

poll_recv(r) ==
  /\ pst[r] = "open"
  /\ LET p == skip_async(dl[r], rd[r]) IN
     IF p < Len(dl[r])
     THEN rd' = [rd EXCEPT ![r] = p + 1] /\ pst' = pst
     ELSE /\ ~sender[r] \/ p > rd[r]
          /\ rd' = [rd EXCEPT ![r] = p]
          /\ pst' = IF sender[r] THEN pst ELSE [pst EXCEPT ![r] = "crashed"]
  /\ UNCHANGED <<reqs, chan, chanClosed, last_start, alive, state, should_flush,
                 back_log, currently_handling, wbuf, rbuf, notif_chan, sender,
                 fwd, endedBy, srvIn, srvPos, net, rfqSeq, asyncLeft, dl>>
  /\ UNCHANGED <<cacheVars, txVars, streamVars, pipelineVars, fillVars, nullVars, reportVars>>

PipeRecv == \E r \in Ids : poll_recv(r)

\* The user task drops the Pipe (and with it the receiver).
PipeDrop ==
  \E r \in Ids :
    /\ pst[r] = "open"
    /\ pst' = [pst EXCEPT ![r] = "dropped"]
    /\ UNCHANGED <<reqs, chan, chanClosed, last_start, alive, state, should_flush,
                   back_log, currently_handling, wbuf, rbuf, notif_chan, sender,
                   fwd, endedBy, srvIn, srvPos, net, rfqSeq, asyncLeft, dl, rd>>
    /\ UNCHANGED <<cacheVars, txVars, streamVars, pipelineVars, fillVars, nullVars, reportVars>>

\* ------------------------------------------------------------------------
\* Statement cache: tasks that run get_or_prepare on one connection
\* ------------------------------------------------------------------------
Tasks == 1..MaxTasks

Sqls == 1..MaxSql

NoEntry == [sql |-> 0, status |-> "None", id |-> 0]

InFlight(k, event) == [sql |-> k, status |-> "InFlight", id |-> event]

Cached(k, statement_id) == [sql |-> k, status |-> "Cached", id |-> statement_id]

\* StatementCache<StatementStatus>: an LRU map from SQL text to entry.
Find(c, k) ==
  IF \E i \in 1..Len(c) : c[i].sql = k
  THEN CHOOSE i \in 1..Len(c) : c[i].sql = k
  ELSE 0

Without(c, i) == SubSeq(c, 1, i - 1) \o SubSeq(c, i + 1, Len(c))

\* StatementCache::get_mut: a hit makes the entry the most recently used.
get_mut(c, k) ==
  IF Find(c, k) = 0 THEN c ELSE Append(Without(c, Find(c, k)), c[Find(c, k)])

\* StatementCache::insert: returns the entry it replaces, or the least
\* recently used entry it evicts when the cache is full.
insert(c, e) ==
  IF Find(c, e.sql) # 0
  THEN [cache |-> Append(Without(c, Find(c, e.sql)), e), old |-> c[Find(c, e.sql)]]
  ELSE IF Len(c) = CacheCapacity
       THEN [cache |-> Append(Tail(c), e), old |-> c[1]]
       ELSE [cache |-> Append(c, e), old |-> NoEntry]

InitCache ==
  /\ cache = <<>> /\ events_set = {} /\ next_event = 0 /\ next_statement_id = 0
  /\ tpc = [t \in Tasks |-> "idle"]
  /\ tsql = [t \in Tasks |-> 0]
  /\ persistent = [t \in Tasks |-> FALSE]
  /\ turns = [t \in Tasks |-> 0]
  /\ waiting = [t \in Tasks |-> 0]
  /\ tstmt = [t \in Tasks |-> 0]
  /\ tclose = [t \in Tasks |-> 0]
  /\ parses = [k \in Sqls |-> 0]
  /\ failures = [k \in Sqls |-> 0]
  /\ evicted = [k \in Sqls |-> 0]
  /\ displaced = {} /\ closed = {}

\* prepare() is entered: it takes the next statement id and the Parse for
\* the SQL text goes to start_pipe.
enter_prepare(t, k) ==
  /\ tpc' = [tpc EXCEPT ![t] = "prepare"]
  /\ parses' = [parses EXCEPT ![k] = @ + 1]
  /\ tstmt' = [tstmt EXCEPT ![t] = next_statement_id + 1]
  /\ next_statement_id' = next_statement_id + 1

\* What leaves the cache when entry `old` is replaced or evicted unseen.
Dropped_entry(old) ==
  /\ displaced' = IF old.status = "Cached" THEN displaced \cup {old.id} ELSE displaced
  /\ evicted' = IF old.status # "None" THEN [evicted EXCEPT ![old.sql] = @ + 1]
                                       ELSE evicted

\* SharedStatementCache::get for SQL text k from the top of the loop, after
\* i finished turns.
get(t, k, i) ==
  /\ turns' = [turns EXCEPT ![t] = i]
  /\ IF i = GetTurns
     THEN \* the loop is over: None
          /\ enter_prepare(t, k)
          /\ UNCHANGED <<cache, next_event, waiting, displaced, evicted>>
     ELSE CASE Find(cache, k) # 0 /\ cache[Find(cache, k)].status = "Cached" ->
                 /\ tpc' = [tpc EXCEPT ![t] = "cached"]
                 /\ cache' = get_mut(cache, k)
                 /\ UNCHANGED <<next_event, waiting, parses, tstmt,
                                next_statement_id, displaced, evicted>>
            [] Find(cache, k) # 0 /\ cache[Find(cache, k)].status = "InFlight" ->
                 /\ tpc' = [tpc EXCEPT ![t] = "waiting"]
                 /\ waiting' = [waiting EXCEPT ![t] = cache[Find(cache, k)].id]
                 /\ cache' = get_mut(cache, k)
                 /\ UNCHANGED <<next_event, parses, tstmt, next_statement_id,
                                displaced, evicted>>
            [] OTHER ->
                 /\ cache' = insert(cache, InFlight(k, next_event + 1)).cache
                 /\ Dropped_entry(insert(cache, InFlight(k, next_event + 1)).old)
                 /\ next_event' = next_event + 1
                 /\ enter_prepare(t, k)
                 /\ UNCHANGED waiting
  /\ UNCHANGED <<events_set, failures, closed, tclose>>
  /\ UNCHANGED <<workerVars, txVars, streamVars, pipelineVars, fillVars, nullVars, reportVars>>

\* PgConnection::get_or_prepare is called and polled for the first time.
get_or_prepare(t, k, store_to_cache) ==
  /\ tpc[t] = "idle"
  /\ tsql' = [tsql EXCEPT ![t] = k]
  /\ persistent' = [persistent EXCEPT ![t] = store_to_cache]
  /\ get(t, k, 0)

\* sem.wait() returns: the event was set.
wait_set(t) ==
  /\ tpc[t] = "waiting"
  /\ waiting[t] \in events_set
  /\ get(t, tsql[t], turns[t] + 1)
  /\ UNCHANGED <<tsql, persistent>>

\* rt::timeout(2 s) elapses before the event is set.
wait_timeout(t) ==
  /\ tpc[t] = "waiting"
  /\ waiting[t] \notin events_set
  /\ get(t, tsql[t], turns[t] + 1)
  /\ UNCHANGED <<tsql, persistent>>

\* prepare returned Ok with store_to_cache: SharedStatementCache::checked_insert;
\* a Cached entry it returns is closed on the server next.
checked_insert(t) ==
  /\ tpc[t] = "prepare" /\ persistent[t]
  /\ \E r \in {insert(cache, Cached(tsql[t], tstmt[t]))} :
       /\ cache' = r.cache
       /\ events_set' = IF r.old.status = "InFlight" THEN events_set \cup {r.old.id}
                                                     ELSE events_set
       /\ displaced' = IF r.old.status = "Cached" THEN displaced \cup {r.old.id}
                                                  ELSE displaced
       /\ evicted' = IF r.old.status # "None" /\ r.old.sql # tsql[t]
                     THEN [evicted EXCEPT ![r.old.sql] = @ + 1] ELSE evicted
       /\ IF r.old.status = "Cached"
          THEN /\ tpc' = [tpc EXCEPT ![t] = "closing"]
               /\ tclose' = [tclose EXCEPT ![t] = r.old.id]
          ELSE /\ tpc' = [tpc EXCEPT ![t] = "prepared"]
               /\ UNCHANGED tclose
  /\ UNCHANGED <<next_event, next_statement_id, tsql, persistent, turns, waiting,
                 tstmt, parses, failures, closed>>
  /\ UNCHANGED <<workerVars, txVars, streamVars, pipelineVars, fillVars, nullVars, reportVars>>

\* prepare returned Ok without store_to_cache: the statement is returned.
prepare_unstored(t) ==
  /\ tpc[t] = "prepare" /\ ~persistent[t]
  /\ tpc' = [tpc EXCEPT ![t] = "prepared"]
  /\ UNCHANGED <<cache, events_set, next_event, next_statement_id, tsql, persistent,
                 turns, waiting, tstmt, tclose, parses, failures, evicted,
                 displaced, closed>>
  /\ UNCHANGED <<workerVars, txVars, streamVars, pipelineVars, fillVars, nullVars, reportVars>>

\* Close + Sync for the entry checked_insert returned: CloseComplete and
\* ReadyForQuery have arrived.
close_complete(t) ==
  /\ tpc[t] = "closing"
  /\ closed' = closed \cup {tclose[t]}
  /\ tpc' = [tpc EXCEPT ![t] = "prepared"]
  /\ UNCHANGED <<cache, events_set, next_event, next_statement_id, tsql, persistent,
                 turns, waiting, tstmt, tclose, parses, failures, evicted, displaced>>
  /\ UNCHANGED <<workerVars, txVars, streamVars, pipelineVars, fillVars, nullVars, reportVars>>

\* prepare returned Err: SharedStatementCache::remove_notify.
remove_notify(t) ==
  /\ tpc[t] = "prepare"
  /\ IF Find(cache, tsql[t]) # 0 /\ cache[Find(cache, tsql[t])].status = "InFlight"
     THEN /\ cache' = Without(cache, Find(cache, tsql[t]))
          /\ events_set' = events_set \cup {cache[Find(cache, tsql[t])].id}
     ELSE UNCHANGED <<cache, events_set>>
  /\ failures' = [failures EXCEPT ![tsql[t]] = @ + 1]
  /\ tpc' = [tpc EXCEPT ![t] = "failed"]
  /\ UNCHANGED <<next_event, next_statement_id, tsql, persistent, turns, waiting,
                 tstmt, tclose, parses, evicted, displaced, closed>>
  /\ UNCHANGED <<workerVars, txVars, streamVars, pipelineVars, fillVars, nullVars, reportVars>>

\* No task is inside get_or_prepare (they borrow the connection).
Unborrowed == \A t \in Tasks : tpc[t] \in {"idle", "cached", "prepared", "failed"}

\* PgConnection::clear_cached_statements (&mut self): every entry is removed,
\* the Cached ones are closed on the server, the markers are skipped.
clear_cached_statements ==
  /\ Unborrowed /\ cache # <<>>
  /\ cache' = <<>>
  /\ closed' = closed \cup {cache[i].id : i \in {j \in 1..Len(cache) : cache[j].status = "Cached"}}
  /\ displaced' = displaced \cup {cache[i].id : i \in {j \in 1..Len(cache) : cache[j].status = "Cached"}}
  /\ evicted' = [k \in Sqls |-> IF Find(cache, k) # 0 THEN evicted[k] + 1 ELSE evicted[k]]
  /\ UNCHANGED <<events_set, next_event, next_statement_id, tpc, tsql, persistent,
                 turns, waiting, tstmt, tclose, parses, failures>>
  /\ UNCHANGED <<workerVars, txVars, streamVars, pipelineVars, fillVars, nullVars, reportVars>>

GetOrPrepare ==
  \E t \in Tasks : \E k \in Sqls : \E store_to_cache \in BOOLEAN :
    get_or_prepare(t, k, store_to_cache)
WaitSet == \E t \in Tasks : wait_set(t)
WaitTimeout == \E t \in Tasks : wait_timeout(t)
CheckedInsert == \E t \in Tasks : checked_insert(t)
PrepareUnstored == \E t \in Tasks : prepare_unstored(t)
CloseComplete == \E t \in Tasks : close_complete(t)
RemoveNotify == \E t \in Tasks : remove_notify(t)

\* ------------------------------------------------------------------------
\* Transactions: PgTransactionManager on one connection, with the server's
\* transaction state
\* ------------------------------------------------------------------------
Statement(sql, sp, awaited) == [sql |-> sql, sp |-> sp, awaited |-> awaited]

\* The statements for a nesting depth: BEGIN or SAVEPOINT _sqlx_savepoint_<depth>,
\* COMMIT or RELEASE SAVEPOINT _sqlx_savepoint_<depth - 1>, ROLLBACK or
\* ROLLBACK TO SAVEPOINT _sqlx_savepoint_<depth - 1>.
begin_ansi_transaction_sql(depth) ==
  IF depth = 0 THEN [sql |-> "BEGIN", sp |-> 0]
               ELSE [sql |-> "SAVEPOINT", sp |-> depth]

commit_ansi_transaction_sql(depth) ==
  IF depth = 1 THEN [sql |-> "COMMIT", sp |-> 0]
               ELSE [sql |-> "RELEASE", sp |-> depth - 1]

rollback_ansi_transaction_sql(depth) ==
  IF depth = 1 THEN [sql |-> "ROLLBACK", sp |-> 0]
               ELSE [sql |-> "ROLLBACK TO", sp |-> depth - 1]

\* What begin is called with: no statement, a custom BEGIN, a custom
\* statement that opens no transaction, or one that the server rejects.
BeginStatements == {"None", "BEGIN", "SELECT", "REJECTED"}

\* No answer has arrived for the awaited statement.
NoAnswer == [ok |-> FALSE, status |-> "-"]

InitTx ==
  /\ transaction_depth = 0 /\ transaction_status = "Idle"
  /\ txq = <<>> /\ txop = "none" /\ txres = NoAnswer /\ tx_last = "none"
  /\ srvTx = "Idle" /\ srvSp = <<>>
  /\ okBegin = 0 /\ okEnd = 0
  /\ opsLeft = MaxOps
  /\ worker_gone = FALSE /\ panicked = FALSE

\* PgConnection::queue_simple_query: the Query goes to the worker, which
\* sends requests to the server in the order they were submitted.
queue_simple_query(q, st, awaited) == Append(q, Statement(st.sql, st.sp, awaited))

\* start_rollback forgets the level without queueing its ROLLBACK.
start_rollback_unqueued(d, q) ==
  [depth |-> IF d > 0 THEN d - 1 ELSE d, q |-> q, panic |-> FALSE]

\* PgTransactionManager::start_rollback on depth d and queue q; the expect on
\* queue_simple_query panics when start_pipe cannot send.
start_rollback(d, q) ==
  IF d > 0
  THEN IF worker_gone
       THEN [depth |-> d, q |-> q, panic |-> TRUE]
       ELSE [depth |-> d - 1,
             q |-> queue_simple_query(q, rollback_ansi_transaction_sql(d), FALSE),
             panic |-> FALSE]
  ELSE [depth |-> d, q |-> q, panic |-> FALSE]

\* begin counts the level as soon as its statement is queued.
begin_increments_on_queue(statement) ==
  /\ txop = "none" /\ opsLeft > 0 /\ ~panicked
  /\ opsLeft' = opsLeft - 1
  /\ statement = "None" /\ transaction_depth < MaxDepth /\ ~worker_gone
  /\ txq' = queue_simple_query(txq, begin_ansi_transaction_sql(transaction_depth), TRUE)
  /\ txop' = "begin"
  /\ tx_last' = "pending"
  /\ transaction_depth' = transaction_depth + 1
  /\ UNCHANGED <<transaction_status, txres, srvTx, srvSp, okBegin, okEnd, txFail>>
  /\ UNCHANGED <<workerVars, cacheVars, streamVars, pipelineVars, fillVars, nullVars, reportVars>>

\* begin, up to the await of the statement's answer.
begin(statement) ==
  /\ txop = "none" /\ opsLeft > 0 /\ ~panicked
  /\ opsLeft' = opsLeft - 1
  /\ IF statement # "None" /\ transaction_depth > 0
     THEN /\ tx_last' = "InvalidSavePointStatement"
          /\ UNCHANGED <<txq, txop, panicked>>
     ELSE /\ transaction_depth < MaxDepth
          /\ IF worker_gone
             THEN \* queue_simple_query(..)? returns, the Rollback guard is dropped
                  /\ tx_last' = "WorkerCrashed"
                  /\ panicked' = start_rollback(transaction_depth, txq).panic
                  /\ UNCHANGED <<txq, txop>>
             ELSE /\ txq' = queue_simple_query(txq,
                              IF statement = "None"
                              THEN begin_ansi_transaction_sql(transaction_depth)
                              ELSE [sql |-> statement, sp |-> 0], TRUE)
                  /\ txop' = "begin"
                  /\ tx_last' = "pending"
                  /\ UNCHANGED panicked
  /\ UNCHANGED <<transaction_depth, transaction_status, txres, srvTx, srvSp,
                 okBegin, okEnd, worker_gone>>
  /\ UNCHANGED <<workerVars, cacheVars, streamVars, pipelineVars, fillVars, nullVars, reportVars>>

\* begin counts the level although the statement opened no transaction.
begin_ready_counts_failed ==
  /\ txop = "begin" /\ txres # NoAnswer /\ ~panicked
  /\ txop' = "none" /\ txres' = NoAnswer
  /\ transaction_status' = IF txres.ok THEN txres.status ELSE transaction_status
  /\ transaction_depth' = IF txres.ok THEN transaction_depth + 1 ELSE transaction_depth
  /\ tx_last' = IF ~txres.ok THEN "Database"
                ELSE IF txres.status = "Transaction" THEN "Ok" ELSE "BeginFailed"
  /\ UNCHANGED <<txq, srvTx, srvSp, okBegin, okEnd, opsLeft, txFail>>
  /\ UNCHANGED <<workerVars, cacheVars, streamVars, pipelineVars, fillVars, nullVars, reportVars>>

\* begin, from the answer on; the Rollback guard is dropped on every return
\* but Ok.
begin_ready ==
  /\ txop = "begin" /\ txres # NoAnswer /\ ~panicked
  /\ txop' = "none" /\ txres' = NoAnswer
  /\ IF txres.ok
     THEN /\ transaction_status' = txres.status
          /\ IF txres.status = "Transaction"
             THEN /\ transaction_depth' = transaction_depth + 1
                  /\ tx_last' = "Ok"
                  /\ UNCHANGED <<txq, panicked>>
             ELSE /\ tx_last' = "BeginFailed"
                  /\ transaction_depth' = start_rollback(transaction_depth, txq).depth
                  /\ txq' = start_rollback(transaction_depth, txq).q
                  /\ panicked' = start_rollback(transaction_depth, txq).panic
     ELSE /\ tx_last' = "Database"
          /\ transaction_depth' = start_rollback(transaction_depth, txq).depth
          /\ txq' = start_rollback(transaction_depth, txq).q
          /\ panicked' = start_rollback(transaction_depth, txq).panic
          /\ UNCHANGED transaction_status
  /\ UNCHANGED <<srvTx, srvSp, okBegin, okEnd, opsLeft, worker_gone>>
  /\ UNCHANGED <<workerVars, cacheVars, streamVars, pipelineVars, fillVars, nullVars, reportVars>>

\* commit, up to the await of conn.execute.
commit ==
  /\ txop = "none" /\ opsLeft > 0 /\ ~panicked
  /\ opsLeft' = opsLeft - 1
  /\ IF transaction_depth > 0
     THEN IF worker_gone
          THEN /\ tx_last' = "WorkerCrashed"
               /\ UNCHANGED <<txq, txop>>
          ELSE /\ txq' = queue_simple_query(txq,
                           commit_ansi_transaction_sql(transaction_depth), TRUE)
               /\ txop' = "commit"
               /\ tx_last' = "pending"
     ELSE /\ tx_last' = "Ok"
          /\ UNCHANGED <<txq, txop>>
  /\ UNCHANGED <<transaction_depth, transaction_status, txres, srvTx, srvSp,
                 okBegin, okEnd, txFail>>
  /\ UNCHANGED <<workerVars, cacheVars, streamVars, pipelineVars, fillVars, nullVars, reportVars>>

\* rollback, up to the await of conn.execute.
rollback ==
  /\ txop = "none" /\ opsLeft > 0 /\ ~panicked
  /\ opsLeft' = opsLeft - 1
  /\ IF transaction_depth > 0
     THEN IF worker_gone
          THEN /\ tx_last' = "WorkerCrashed"
               /\ UNCHANGED <<txq, txop>>
          ELSE /\ txq' = queue_simple_query(txq,
                           rollback_ansi_transaction_sql(transaction_depth), TRUE)
               /\ txop' = "rollback"
               /\ tx_last' = "pending"
     ELSE /\ tx_last' = "Ok"
          /\ UNCHANGED <<txq, txop>>
  /\ UNCHANGED <<transaction_depth, transaction_status, txres, srvTx, srvSp,
                 okBegin, okEnd, txFail>>
  /\ UNCHANGED <<workerVars, cacheVars, streamVars, pipelineVars, fillVars, nullVars, reportVars>>

\* A commit or rollback whose statement failed decrements all the same.
end_ready_always_decrements ==
  /\ txop \in {"commit", "rollback"} /\ txres # NoAnswer /\ ~panicked
  /\ txop' = "none" /\ txres' = NoAnswer
  /\ transaction_depth' = transaction_depth - 1
  /\ transaction_status' = IF txres.ok THEN txres.status ELSE transaction_status
  /\ tx_last' = IF txres.ok THEN "Ok" ELSE "Database"
  /\ UNCHANGED <<txq, srvTx, srvSp, okBegin, okEnd, opsLeft, txFail>>
  /\ UNCHANGED <<workerVars, cacheVars, streamVars, pipelineVars, fillVars, nullVars, reportVars>>

\* commit and rollback, from the answer of conn.execute on.
end_ready ==
  /\ txop \in {"commit", "rollback"} /\ txres # NoAnswer /\ ~panicked
  /\ txop' = "none" /\ txres' = NoAnswer
  /\ IF txres.ok
     THEN /\ transaction_status' = txres.status
          /\ transaction_depth' = transaction_depth - 1
          /\ tx_last' = "Ok"
     ELSE /\ tx_last' = "Database"
          /\ UNCHANGED <<transaction_depth, transaction_status>>
  /\ UNCHANGED <<txq, srvTx, srvSp, okBegin, okEnd, opsLeft, txFail>>
  /\ UNCHANGED <<workerVars, cacheVars, streamVars, pipelineVars, fillVars, nullVars, reportVars>>

\* A transaction guard is dropped without commit or rollback: start_rollback.
guard_drop ==
  /\ txop = "none" /\ ~panicked
  /\ transaction_depth' = start_rollback(transaction_depth, txq).depth
  /\ txq' = start_rollback(transaction_depth, txq).q
  /\ panicked' = start_rollback(transaction_depth, txq).panic
  /\ tx_last' = "dropped"
  /\ UNCHANGED <<transaction_status, txop, txres, srvTx, srvSp, okBegin, okEnd,
                 opsLeft, worker_gone>>
  /\ UNCHANGED <<workerVars, cacheVars, streamVars, pipelineVars, fillVars, nullVars, reportVars>>

\* The user executes a statement that the server rejects.
execute_rejected ==
  /\ txop = "none" /\ opsLeft > 0 /\ ~panicked
  /\ opsLeft' = opsLeft - 1
  /\ IF worker_gone
     THEN /\ tx_last' = "WorkerCrashed"
          /\ UNCHANGED <<txq, txop>>
     ELSE /\ txq' = queue_simple_query(txq, [sql |-> "REJECTED", sp |-> 0], TRUE)
          /\ txop' = "execute"
          /\ tx_last' = "pending"
  /\ UNCHANGED <<transaction_depth, transaction_status, txres, srvTx, srvSp,
                 okBegin, okEnd, txFail>>
  /\ UNCHANGED <<workerVars, cacheVars, streamVars, pipelineVars, fillVars, nullVars, reportVars>>

execute_ready ==
  /\ txop = "execute" /\ txres # NoAnswer /\ ~panicked
  /\ txop' = "none" /\ txres' = NoAnswer
  /\ tx_last' = "Database"
  /\ UNCHANGED <<transaction_depth, transaction_status, txq, srvTx, srvSp,
                 okBegin, okEnd, opsLeft, txFail>>
  /\ UNCHANGED <<workerVars, cacheVars, streamVars, pipelineVars, fillVars, nullVars, reportVars>>

\* The worker ends (an I/O error, or the channel was closed): start_pipe
\* cannot send any more and no answer is forwarded.
worker_exit ==
  /\ ~worker_gone /\ ~panicked
  /\ worker_gone' = TRUE
  /\ UNCHANGED <<transaction_depth, transaction_status, txq, txop, txres, tx_last,
                 srvTx, srvSp, okBegin, okEnd, opsLeft, panicked>>
  /\ UNCHANGED <<workerVars, cacheVars, streamVars, pipelineVars, fillVars, nullVars, reportVars>>

\* The awaited answer cannot come: recv returns WorkerCrashed. In begin the
\* Rollback guard is dropped on the way out.
recv_crashed ==
  /\ txop # "none" /\ worker_gone /\ txres = NoAnswer /\ ~panicked
  /\ txop' = "none"
  /\ tx_last' = "WorkerCrashed"
  /\ panicked' = IF txop = "begin" THEN start_rollback(transaction_depth, txq).panic
                                   ELSE FALSE
  /\ UNCHANGED <<transaction_depth, transaction_status, txq, txres, srvTx, srvSp,
                 okBegin, okEnd, opsLeft, worker_gone>>
  /\ UNCHANGED <<workerVars, cacheVars, streamVars, pipelineVars, fillVars, nullVars, reportVars>>

\* The server's savepoints.
HasSp(k) == \E i \in 1..Len(srvSp) : srvSp[i] = k

LastSp(k) == CHOOSE i \in 1..Len(srvSp) :
               srvSp[i] = k /\ \A j \in (i + 1)..Len(srvSp) : srvSp[j] # k

Rejected == [ok |-> FALSE, tx |-> IF srvTx = "Idle" THEN "Idle" ELSE "Error",
             sp |-> srvSp]

\* What the server does with one statement.
server_statement(st) ==
  CASE st.sql = "BEGIN" ->
         IF srvTx = "Error" THEN Rejected
         ELSE [ok |-> TRUE, tx |-> "Transaction", sp |-> srvSp]
    [] st.sql = "SAVEPOINT" ->
         IF srvTx = "Transaction"
         THEN [ok |-> TRUE, tx |-> "Transaction", sp |-> Append(srvSp, st.sp)]
         ELSE Rejected
    [] st.sql = "RELEASE" ->
         IF srvTx = "Transaction" /\ HasSp(st.sp)
         THEN [ok |-> TRUE, tx |-> "Transaction",
               sp |-> SubSeq(srvSp, 1, LastSp(st.sp) - 1)]
         ELSE Rejected
    [] st.sql = "ROLLBACK TO" ->
         IF srvTx # "Idle" /\ HasSp(st.sp)
         THEN [ok |-> TRUE, tx |-> "Transaction",
               sp |-> SubSeq(srvSp, 1, LastSp(st.sp))]
         ELSE Rejected
    [] st.sql \in {"COMMIT", "ROLLBACK"} ->
         [ok |-> TRUE, tx |-> "Idle", sp |-> <<>>]
    [] st.sql = "SELECT" ->
         IF srvTx = "Error" THEN Rejected
         ELSE [ok |-> TRUE, tx |-> srvTx, sp |-> srvSp]
    [] OTHER -> Rejected

\* The server executes the oldest queued statement and answers it.
ServerStatement ==
  /\ txq # <<>>
  /\ LET st == Head(txq)
         r  == server_statement(st)
     IN /\ srvTx' = r.tx /\ srvSp' = r.sp
        /\ okBegin' = IF r.ok /\ st.sql \in {"BEGIN", "SAVEPOINT"}
                      THEN okBegin + 1 ELSE okBegin
        /\ okEnd' = IF r.ok /\ st.sql \in {"COMMIT", "ROLLBACK", "RELEASE", "ROLLBACK TO"}
                    THEN okEnd + 1 ELSE okEnd
        /\ txres' = IF st.awaited /\ ~worker_gone /\ txop # "none"
                    THEN [ok |-> r.ok, status |-> r.tx] ELSE txres
  /\ txq' = Tail(txq)
  /\ UNCHANGED <<transaction_depth, transaction_status, txop, tx_last, opsLeft,
                 txFail>>
  /\ UNCHANGED <<workerVars, cacheVars, streamVars, pipelineVars, fillVars, nullVars, reportVars>>

Begin == \E statement \in BeginStatements : begin(statement)

\* ------------------------------------------------------------------------
\* The response stream that PgConnection::run returns for one statement
\* ------------------------------------------------------------------------
TransactionStatus == {"Idle", "Transaction", "Error"}

BackendMessage(format, status) == [format |-> format, status |-> status]

\* The frames a pipe can deliver: ignored ones (BindComplete stands for
\* ParseComplete, ParameterDescription, NoData, CloseComplete as well),
\* results, a notice, an error, one the stream does not expect, and the
\* ReadyForQuery with its transaction status.
StreamFrames ==
  {BackendMessage(f, "-") : f \in {"BindComplete", "RowDescription", "DataRow",
                                   "CommandComplete", "NoticeResponse",
                                   "ErrorResponse", "CopyInResponse"}}
    \cup {BackendMessage("ReadyForQuery", st) : st \in TransactionStatus}

InitStream ==
  /\ rs_pipe = <<>> /\ rs_left = MaxFrames
  /\ rs_read = <<>> /\ rs_items = <<>> /\ rs_state = "running"

\* The worker forwards one more frame to the statement's pipe.
forward_frame(f) ==
  /\ rs_left > 0
  /\ rs_left' = rs_left - 1
  /\ rs_pipe' = Append(rs_pipe, f)
  /\ UNCHANGED <<rs_read, rs_items, rs_state>>
  /\ UNCHANGED <<workerVars, cacheVars, txVars, pipelineVars, fillVars, nullVars, reportVars>>

\* The stream ends as soon as the command is complete.
stream_next_ends_on_complete ==
  /\ rs_state = "running" /\ rs_pipe # <<>>
  /\ rs_pipe' = Tail(rs_pipe)
  /\ rs_read' = Append(rs_read, Head(rs_pipe))
  /\ rs_items' = IF Head(rs_pipe).format \in {"CommandComplete", "DataRow"}
                 THEN Append(rs_items, Head(rs_pipe).format) ELSE rs_items
  /\ rs_state' = IF Head(rs_pipe).format \in {"CommandComplete", "ReadyForQuery"}
                 THEN "done" ELSE "running"
  /\ transaction_status' = IF Head(rs_pipe).format = "ReadyForQuery"
                           THEN Head(rs_pipe).status ELSE transaction_status
  /\ UNCHANGED <<rs_left, transaction_depth, txq, txop, txres, tx_last, srvTx, srvSp,
                 okBegin, okEnd, opsLeft, txFail>>
  /\ UNCHANGED <<workerVars, cacheVars, pipelineVars, fillVars, nullVars, reportVars>>

\* One turn of the loop of the stream: pipe.recv() (which skips notices and
\* turns an ErrorResponse into Err) and the match on the format.
stream_next ==
  /\ rs_state = "running" /\ rs_pipe # <<>>
  /\ rs_pipe' = Tail(rs_pipe)
  /\ rs_read' = Append(rs_read, Head(rs_pipe))
  /\ CASE Head(rs_pipe).format = "ErrorResponse" ->
            rs_state' = "failed" /\ UNCHANGED <<rs_items, transaction_status>>
       [] Head(rs_pipe).format \in {"NoticeResponse", "BindComplete", "RowDescription"} ->
            UNCHANGED <<rs_state, rs_items, transaction_status>>
       [] Head(rs_pipe).format \in {"CommandComplete", "DataRow"} ->
            /\ rs_items' = Append(rs_items, Head(rs_pipe).format)
            /\ UNCHANGED <<rs_state, transaction_status>>
       [] Head(rs_pipe).format = "ReadyForQuery" ->
            /\ transaction_status' = Head(rs_pipe).status
            /\ rs_state' = "done"
            /\ UNCHANGED rs_items
       [] OTHER ->
            rs_state' = "failed" /\ UNCHANGED <<rs_items, transaction_status>>
  /\ UNCHANGED <<rs_left, transaction_depth, txq, txop, txres, tx_last, srvTx, srvSp,
                 okBegin, okEnd, opsLeft, txFail>>
  /\ UNCHANGED <<workerVars, cacheVars, pipelineVars, fillVars, nullVars, reportVars>>

ForwardFrame == \E f \in StreamFrames : forward_frame(f)

\* ------------------------------------------------------------------------
\* The pipelined engine: QueryState machines driven over one connection
\* ------------------------------------------------------------------------
\* SQL text BadSql does not parse on the server; the others do.
BadSql == MaxSql

\* A query's execution succeeds, or fails on the server after Bind.
Outcomes == {"ok", "execute fails"}

\* The text of the recursive type fetch, which parses unless the server
\* refuses it (as it refuses every Parse inside a failed transaction).
SQL == 0

\* No nested query: the step is not FillCache.
NoFill == [next_step |-> "-", stmt |-> 0, should_flush_before_next |-> FALSE]

\* QueryState::new(SQL, arguments) of the query that fetches the types.
FillQuery ==
  [next_step |-> "GetOrPrepare", stmt |-> 0, should_flush_before_next |-> FALSE]

None == [next_step |-> "None", sql |-> 0, outcome |-> "-", stmt |-> 0,
         should_flush_before_next |-> FALSE, unresolved |-> "none",
         fetch |-> "-", fill |-> NoFill]

\* QueryState::new. `unresolved` says where the query has a type that is
\* not in the type cache (nowhere, among its arguments, among its columns)
\* and `fetch` what the server answers when the type fetch is parsed.
QueryState(sql, outcome) ==
  [next_step |-> "GetOrPrepare", sql |-> sql, outcome |-> outcome, stmt |-> 0,
   should_flush_before_next |-> FALSE, unresolved |-> "none", fetch |-> "-",
   fill |-> NoFill]

Unresolved == {"arguments", "columns"}

Fetches == {"ok", "fetch fails"}

with_types(st, unresolved, fetch) ==
  [st EXCEPT !.unresolved = unresolved, !.fetch = fetch]

Backend(format, q) == [format |-> format, owner |-> q]

Item(kind, q) == [kind |-> kind, owner |-> q]

\* The messages a step writes up to its Sync: Parse, Describe, Sync or Bind,
\* Execute, Close, Sync of query q for the statement named stmt.
Frontend(format, q, st, stmt) ==
  [format |-> format, owner |-> q, sql |-> st.sql, outcome |-> st.outcome,
   stmt |-> stmt]

\* StatementId: named statements count up from NAMED_START, the unnamed
\* statement has an id of its own.
UNNAMED == 0

NAMED_START == 1

StatementId_next(id) == id + 1

\* An allocation that leaves the counter where it is.
take_stmt_id_again(counter) ==
  [id |-> counter, next_statement_id |-> counter]

\* `let id = next_statement_id; next_statement_id = id.next(); id`, in
\* executor::prepare and in PipelineContext::next_stmt_id.
take_stmt_id(counter) ==
  [id |-> counter, next_statement_id |-> StatementId_next(counter)]

InitPipeline ==
  /\ queries = <<>> /\ cur = 1 /\ inbound = <<>>
  /\ preparing = {} /\ cache_statement = [s \in Sqls \cup {SQL} |-> 0]
  /\ results = [q \in 1..MaxQueries |-> <<>>]
  /\ hung = FALSE
  /\ rx = <<>> /\ running = FALSE /\ polled = FALSE
  /\ write_buffer = <<>> /\ has_flushed = FALSE /\ next_stmt_id = NAMED_START
  /\ stmt_ids = <<>>
  /\ visits = <<>> /\ flushes = 0 /\ tick_over = TRUE /\ tick_len = 0
  /\ parse_sent = [s \in Sqls |-> 0] /\ parse_failed = [s \in Sqls |-> 0]
  /\ together = {} /\ wire = <<>>

\* What the server answers to Parse, Describe, Sync of query q: after an
\* error it skips to the Sync and answers it with ReadyForQuery.
server_prepare(q, sql) ==
  IF sql = BadSql
  THEN <<Backend("ErrorResponse", q), Backend("ReadyForQuery", q)>>
  ELSE <<Backend("ParseComplete", q), Backend("ParameterDescription", q),
         Backend("RowDescription", q), Backend("ReadyForQuery", q)>>

\* What the server answers to Bind, Execute, Close, Sync of query q.
server_execute(q, outcome) ==
  IF outcome = "ok"
  THEN <<Backend("BindComplete", q), Backend("DataRow", q),
         Backend("CommandComplete", q), Backend("CloseComplete", q),
         Backend("ReadyForQuery", q)>>
  ELSE <<Backend("BindComplete", q), Backend("ErrorResponse", q),
         Backend("ReadyForQuery", q)>>

\* What the server answers to Parse, Describe, Sync of the type fetch.
server_fetch(q, fetch) ==
  IF fetch = "fetch fails"
  THEN <<Backend("ErrorResponse", q), Backend("ReadyForQuery", q)>>
  ELSE <<Backend("ParseComplete", q), Backend("ParameterDescription", q),
         Backend("RowDescription", q), Backend("ReadyForQuery", q)>>

\* What the server answers to a flushed write buffer, group after group.
RECURSIVE server_answers(_)
server_answers(buffer) ==
  IF buffer = <<>> THEN <<>>
  ELSE (IF Head(buffer).format = "Parse"
        THEN (IF Head(buffer).sql = SQL
              THEN server_fetch(Head(buffer).owner, Head(buffer).outcome)
              ELSE server_prepare(Head(buffer).owner, Head(buffer).sql))
        ELSE server_execute(Head(buffer).owner, Head(buffer).outcome))
       \o server_answers(Tail(buffer))

\* recv_expect for each of the formats in turn: Ok when every frame has the
\* expected format, Err at the first ErrorResponse or frame of another
\* format (`from` is the query that frame answers), and a wait without end
\* when the frames run out.
RECURSIVE recv_expect(_, _)
recv_expect(frames, formats) ==
  IF formats = <<>> THEN [outcome |-> "Ok", rest |-> frames, from |-> 0]
  ELSE IF frames = <<>> THEN [outcome |-> "Pending", rest |-> frames, from |-> 0]
  ELSE IF Head(frames).format = Head(formats)
       THEN recv_expect(Tail(frames), Tail(formats))
       ELSE [outcome |-> "Err", rest |-> Tail(frames), from |-> Head(frames).owner]

\* receive_rows: the response stream, as in PgConnection::run, with the
\* items it yields; it ends at a ReadyForQuery or with the error it yields.
RECURSIVE receive_rows(_, _)
receive_rows(frames, items) ==
  IF frames = <<>> THEN [outcome |-> "Pending", rest |-> frames, items |-> items]
  ELSE CASE Head(frames).format = "ReadyForQuery" ->
              [outcome |-> "Ok", rest |-> Tail(frames), items |-> items]
         [] Head(frames).format \in {"DataRow", "CommandComplete"} ->
              receive_rows(Tail(frames),
                           Append(items, Item(Head(frames).format, Head(frames).owner)))
         [] Head(frames).format \in {"BindComplete", "ParseComplete", "CloseComplete",
                                     "ParameterDescription", "RowDescription"} ->
              receive_rows(Tail(frames), items)
         [] OTHER ->
              [outcome |-> "Ok", rest |-> Tail(frames),
               items |-> Append(items, Item("Err", Head(frames).owner))]

\* The index the loop over the queries visits after q.
next_query(q) == IF q < Len(queries) THEN q + 1 ELSE 1

\* The connection has prepared the statement before the pipeline was made:
\* it is in the connection's statement cache.
prepared_earlier(sql) ==
  /\ ~running /\ queries = <<>> /\ rx = <<>>
  /\ sql # BadSql /\ cache_statement[sql] = 0
  /\ \E taken \in {take_stmt_id(next_stmt_id)} :
       /\ cache_statement' = [cache_statement EXCEPT ![sql] = taken.id]
       /\ next_stmt_id' = taken.next_statement_id
       /\ stmt_ids' = Append(stmt_ids, taken.id)
  /\ UNCHANGED <<queries, cur, inbound, preparing, results, hung, rx, running,
                 polled, write_buffer, has_flushed, visits, flushes, tick_over,
                 tick_len, parse_sent, parse_failed, together, wire>>
  /\ UNCHANGED <<workerVars, cacheVars, txVars, streamVars, fillVars, nullVars, reportVars>>

\* PipelineWorker::push: a query is added before the worker is spawned.
push(sql, outcome) ==
  /\ ~running /\ Len(queries) + Len(rx) < MaxQueries
  /\ queries' = Append(queries, QueryState(sql, outcome))
  /\ UNCHANGED <<cur, inbound, preparing, cache_statement, results, hung, rx,
                 running, polled, write_buffer, has_flushed, next_stmt_id, stmt_ids,
                 visits, flushes, tick_over, tick_len, parse_sent, parse_failed,
                 together, wire>>
  /\ UNCHANGED <<workerVars, cacheVars, txVars, streamVars, fillVars, nullVars, reportVars>>

\* PipelineWorker::spawn: main_loop starts. `together` are the queries it
\* starts with, if the statement of each of them is in the cache.
spawn ==
  /\ ~running
  /\ running' = TRUE
  /\ together' = IF \A q \in 1..Len(queries) : cache_statement[queries[q].sql] # 0
                 THEN 1..Len(queries) ELSE {}
  /\ UNCHANGED <<queries, cur, inbound, preparing, cache_statement, results,
                 hung, rx, polled, write_buffer, has_flushed, next_stmt_id, stmt_ids,
                 visits, flushes, tick_over, tick_len, parse_sent, parse_failed,
                 wire>>
  /\ UNCHANGED <<workerVars, cacheVars, txVars, streamVars, fillVars, nullVars, reportVars>>

\* A Command::Query is sent on the worker's channel.
send(sql, outcome) ==
  /\ ~hung /\ Len(queries) + Len(rx) < MaxQueries
  /\ rx' = Append(rx, QueryState(sql, outcome))
  /\ UNCHANGED <<queries, cur, inbound, preparing, cache_statement, results,
                 hung, running, polled, write_buffer, has_flushed, next_stmt_id, stmt_ids,
                 visits, flushes, tick_over, tick_len, parse_sent, parse_failed,
                 together, wire>>
  /\ UNCHANGED <<workerVars, cacheVars, txVars, streamVars, fillVars, nullVars, reportVars>>

\* main_loop, the branch of select! that receives Command::Query: the query
\* is pushed, the future that was visiting the queries is dropped, and the
\* next iteration starts with setup() at the first query.
recv_command ==
  /\ running /\ ~hung /\ rx # <<>>
  /\ queries' = Append(queries, Head(rx))
  /\ rx' = Tail(rx)
  /\ cur' = 1 /\ has_flushed' = FALSE /\ polled' = FALSE /\ tick_over' = TRUE
  /\ UNCHANGED <<inbound, preparing, cache_statement, results, hung, running,
                 write_buffer, next_stmt_id, stmt_ids, visits, flushes, tick_len,
                 parse_sent, parse_failed, together, wire>>
  /\ UNCHANGED <<workerVars, cacheVars, txVars, streamVars, fillVars, nullVars, reportVars>>

\* QueryState::handle_error: nothing is read (the query is not in FillCache).
handle_error(frames) == frames

handle_flush_every_query(st, flushed) ==
  st # None /\ st.should_flush_before_next

\* JoinManager::handle_flush: whether the write buffer is flushed before the
\* step of the query in state st.
handle_flush(st, flushed) ==
  st # None /\ ~flushed /\ st.should_flush_before_next

never_preparing(sql) == FALSE

\* PipelineContext::is_preparing_this_iter
is_preparing_this_iter(sql) == sql \in preparing

\* The outer query with its nested query after a step of it:
\* `self.should_flush_before_next = query.should_flush_before_next`.
filling(st, query) ==
  [st EXCEPT !.fill = query,
             !.should_flush_before_next = query.should_flush_before_next]

\* PipelineStep::FillCache of the query in state st at index q:
\* QueryState::next of the nested query that fetches the types, whose error
\* is the outer query's (`?`, then handle_next of the outer query); once the
\* nested query is done the types are in the cache and the outer query
\* goes back to ParseDescribe.
next_FillCache(q, st, frames, buffer) ==
  CASE st.fill.next_step = "GetOrPrepare" ->
         /\ IF cache_statement[SQL] # 0
            THEN /\ queries' = [queries EXCEPT ![q] =
                                  filling(st, [st.fill EXCEPT
                                                 !.next_step = "BindExecuteClose",
                                                 !.stmt = cache_statement[SQL]])]
                 /\ UNCHANGED preparing
            ELSE IF is_preparing_this_iter(SQL)
            THEN /\ queries' = [queries EXCEPT ![q] = filling(st, st.fill)]
                 /\ UNCHANGED preparing
            ELSE /\ preparing' = preparing \cup {SQL}
                 /\ queries' = [queries EXCEPT ![q] =
                                  filling(st, [st.fill EXCEPT
                                                 !.next_step = "ParseDescribe"])]
         /\ inbound' = frames /\ write_buffer' = buffer
         /\ UNCHANGED <<cache_statement, results, hung, next_stmt_id, stmt_ids,
                        parse_sent, parse_failed>>
    [] st.fill.next_step = "ParseDescribe" ->
         /\ \E taken \in {take_stmt_id(next_stmt_id)} :
              /\ next_stmt_id' = taken.next_statement_id
              /\ stmt_ids' = Append(stmt_ids, taken.id)
              /\ write_buffer' =
                   Append(buffer, Frontend("Parse", q,
                                           [sql |-> SQL, outcome |-> st.fetch],
                                           taken.id))
              /\ queries' = [queries EXCEPT ![q] =
                               filling(st, [st.fill EXCEPT
                                              !.next_step = "ReceiveParseDescribe",
                                              !.stmt = taken.id,
                                              !.should_flush_before_next = TRUE])]
         /\ inbound' = frames
         /\ UNCHANGED <<preparing, cache_statement, results, hung, parse_sent,
                        parse_failed>>
    [] st.fill.next_step = "ReceiveParseDescribe" ->
         \E r \in {recv_expect(frames, <<"ParseComplete", "ParameterDescription",
                                        "RowDescription", "ReadyForQuery">>)} :
           /\ write_buffer' = buffer
           /\ UNCHANGED <<next_stmt_id, stmt_ids, parse_sent, parse_failed>>
           /\ CASE r.outcome = "Ok" ->
                  /\ inbound' = r.rest
                  /\ cache_statement' = [cache_statement EXCEPT ![SQL] = st.fill.stmt]
                  /\ preparing' = preparing \ {SQL}
                  /\ queries' = [queries EXCEPT ![q] =
                                   filling(st, [st.fill EXCEPT
                                                  !.next_step = "BindExecuteClose"])]
                  /\ UNCHANGED <<results, hung>>
             [] r.outcome = "Err" ->
                  \* handle_next of the outer query: its own text is removed
                  /\ inbound' = handle_error(r.rest)
                  /\ preparing' = preparing \ {st.sql}
                  /\ results' = [results EXCEPT ![q] = Append(@, Item("Err", r.from))]
                  /\ queries' = [queries EXCEPT ![q] = None]
                  /\ UNCHANGED <<cache_statement, hung>>
             [] OTHER ->
                  /\ hung' = TRUE /\ inbound' = r.rest
                  /\ queries' = [queries EXCEPT ![q] = filling(st, st.fill)]
                  /\ UNCHANGED <<preparing, cache_statement, results>>
    [] st.fill.next_step = "BindExecuteClose" ->
         /\ write_buffer' =
              Append(buffer, Frontend("Bind", q, [sql |-> SQL, outcome |-> "ok"],
                                      st.fill.stmt))
         /\ queries' = [queries EXCEPT ![q] =
                          filling(st, [st.fill EXCEPT
                                         !.next_step = "ReceiveData",
                                         !.should_flush_before_next = TRUE])]
         /\ inbound' = frames
         /\ UNCHANGED <<preparing, cache_statement, results, hung, next_stmt_id,
                        stmt_ids, parse_sent, parse_failed>>
    [] OTHER ->  \* ReceiveData, then the rows are read from the nested channel
         \E r \in {receive_rows(frames, <<>>)} :
           /\ inbound' = r.rest /\ write_buffer' = buffer
           /\ CASE r.outcome = "Pending" ->
                  /\ hung' = TRUE
                  /\ queries' = [queries EXCEPT ![q] = filling(st, st.fill)]
                  /\ UNCHANGED <<preparing, results>>
             [] \E i \in 1..Len(r.items) : r.items[i].kind = "Err" ->
                  /\ preparing' = preparing \ {st.sql}
                  /\ results' = [results EXCEPT ![q] = Append(@, Item("Err", q))]
                  /\ queries' = [queries EXCEPT ![q] = None]
                  /\ UNCHANGED hung
             [] OTHER ->
                  /\ queries' = [queries EXCEPT ![q] =
                                   [st EXCEPT !.next_step = "ParseDescribe",
                                              !.unresolved = "none",
                                              !.fill = NoFill,
                                              !.should_flush_before_next = TRUE]]
                  /\ UNCHANGED <<preparing, results, hung>>
           /\ UNCHANGED <<cache_statement, next_stmt_id, stmt_ids, parse_sent,
                          parse_failed>>

\* QueryState::next for the query in state st at index q, with the frames
\* to receive and the write buffer as handle_flush has left them.
next(q, st, frames, buffer) ==
  CASE st.next_step = "GetOrPrepare" ->
         /\ IF cache_statement[st.sql] # 0
            THEN /\ queries' = [queries EXCEPT ![q] =
                                  [st EXCEPT !.next_step = "BindExecuteClose",
                                             !.stmt = cache_statement[st.sql]]]
                 /\ UNCHANGED preparing
            ELSE IF is_preparing_this_iter(st.sql)
            THEN /\ queries' = [queries EXCEPT ![q] = st]
                 /\ UNCHANGED preparing
            ELSE /\ preparing' = preparing \cup {st.sql}
                 /\ queries' = [queries EXCEPT ![q] =
                                  [st EXCEPT !.next_step = "ParseDescribe"]]
         /\ inbound' = frames /\ write_buffer' = buffer
         /\ UNCHANGED <<cache_statement, results, hung, next_stmt_id, stmt_ids,
                        parse_sent, parse_failed>>
    [] st.next_step = "ParseDescribe" ->
         /\ \E taken \in {take_stmt_id(next_stmt_id)} :
              /\ next_stmt_id' = taken.next_statement_id
              /\ stmt_ids' = Append(stmt_ids, taken.id)
              /\ IF st.unresolved = "arguments"
                 THEN /\ write_buffer' = buffer
                      /\ queries' = [queries EXCEPT ![q] =
                                       [st EXCEPT !.next_step = "FillCache",
                                                  !.fill = FillQuery]]
                      /\ UNCHANGED parse_sent
                 ELSE /\ write_buffer' = Append(buffer, Frontend("Parse", q, st, taken.id))
                      /\ queries' = [queries EXCEPT ![q] =
                                       [st EXCEPT !.next_step = "ReceiveParseDescribe",
                                                  !.stmt = taken.id,
                                                  !.should_flush_before_next = TRUE]]
                      /\ parse_sent' = [parse_sent EXCEPT ![st.sql] = @ + 1]
         /\ inbound' = frames
         /\ UNCHANGED <<preparing, cache_statement, results, hung, parse_failed>>
    [] st.next_step = "ReceiveParseDescribe" ->
         \E r \in {recv_expect(frames, <<"ParseComplete", "ParameterDescription",
                                        "RowDescription", "ReadyForQuery">>)} :
           /\ write_buffer' = buffer
           /\ UNCHANGED <<next_stmt_id, stmt_ids, parse_sent>>
           /\ CASE r.outcome = "Ok" /\ st.unresolved = "columns" ->
                  /\ inbound' = r.rest
                  /\ queries' = [queries EXCEPT ![q] =
                                   [st EXCEPT !.next_step = "FillCache",
                                              !.fill = FillQuery]]
                  /\ UNCHANGED <<preparing, cache_statement, results, hung,
                                 parse_failed>>
             [] r.outcome = "Ok" ->
                  /\ inbound' = r.rest
                  /\ cache_statement' = [cache_statement EXCEPT ![st.sql] = st.stmt]
                  /\ preparing' = preparing \ {st.sql}
                  /\ queries' = [queries EXCEPT ![q] =
                                   [st EXCEPT !.next_step = "BindExecuteClose"]]
                  /\ UNCHANGED <<results, hung, parse_failed>>
             [] r.outcome = "Err" ->
                  \* handle_next: the query is detached and its caller gets the error
                  /\ inbound' = handle_error(r.rest)
                  /\ preparing' = preparing \ {st.sql}
                  /\ results' = [results EXCEPT ![q] = Append(@, Item("Err", r.from))]
                  /\ queries' = [queries EXCEPT ![q] = None]
                  /\ parse_failed' = [parse_failed EXCEPT ![st.sql] = @ + 1]
                  /\ UNCHANGED <<cache_statement, hung>>
             [] OTHER ->
                  /\ hung' = TRUE /\ inbound' = r.rest
                  /\ queries' = [queries EXCEPT ![q] = st]
                  /\ UNCHANGED <<preparing, cache_statement, results, parse_failed>>
    [] st.next_step = "BindExecuteClose" ->
         /\ write_buffer' = Append(buffer, Frontend("Bind", q, st, st.stmt))
         /\ queries' = [queries EXCEPT ![q] =
                          [st EXCEPT !.next_step = "ReceiveData",
                                     !.should_flush_before_next = TRUE]]
         /\ inbound' = frames
         /\ UNCHANGED <<preparing, cache_statement, results, hung, next_stmt_id, stmt_ids,
                        parse_sent, parse_failed>>
    [] st.next_step = "FillCache" -> next_FillCache(q, st, frames, buffer)
    [] OTHER ->  \* ReceiveData
         \E r \in {receive_rows(frames, <<>>)} :
           /\ inbound' = r.rest /\ write_buffer' = buffer
           /\ IF r.outcome = "Pending"
              THEN /\ hung' = TRUE
                   /\ results' = [results EXCEPT ![q] = @ \o r.items]
                   /\ queries' = [queries EXCEPT ![q] = st]
              ELSE /\ results' = [results EXCEPT ![q] = @ \o r.items \o <<Item("None", 0)>>]
                   /\ queries' = [queries EXCEPT ![q] = None]
                   /\ UNCHANGED hung
           /\ UNCHANGED <<preparing, cache_statement, next_stmt_id, stmt_ids, parse_sent,
                          parse_failed>>

\* JoinManager::handle_next on the query the loop of PipelineWorker::next is
\* at: handle_flush and QueryState::handle_next if it is live, then
\* yield_now. After the last query main_loop starts its next iteration with
\* setup(). While a command waits in the channel the future is polled at
\* most once before select! takes the command.
handle_next ==
  /\ running /\ ~hung /\ queries # <<>>
  /\ rx = <<>> \/ ~polled
  /\ \E q \in 1..Len(queries) : queries[q] # None
  /\ \E fl \in {handle_flush(queries[cur], has_flushed)} :
       /\ has_flushed' = IF cur = Len(queries) THEN FALSE ELSE (has_flushed \/ fl)
       /\ flushes' = (IF tick_over THEN 0 ELSE flushes) + (IF fl THEN 1 ELSE 0)
       /\ IF queries[cur] = None
          THEN /\ visits' = IF tick_over THEN <<>> ELSE visits
               /\ UNCHANGED <<queries, inbound, preparing, cache_statement,
                              results, hung, write_buffer, next_stmt_id, stmt_ids,
                              parse_sent, parse_failed>>
          ELSE /\ visits' = Append(IF tick_over THEN <<>> ELSE visits, cur)
               /\ next(cur, [queries[cur] EXCEPT !.should_flush_before_next = FALSE],
                       IF fl THEN inbound \o server_answers(write_buffer) ELSE inbound,
                       IF fl THEN <<>> ELSE write_buffer)
  /\ cur' = next_query(cur)
  /\ tick_over' = (cur = Len(queries))
  /\ tick_len' = Len(queries)
  /\ polled' = (rx # <<>>)
  /\ UNCHANGED <<rx, running, together, wire>>
  /\ UNCHANGED <<workerVars, cacheVars, txVars, streamVars, fillVars, nullVars, reportVars>>

PreparedEarlier == \E sql \in Sqls : prepared_earlier(sql)

Push == \E sql \in Sqls : \E outcome \in Outcomes : push(sql, outcome)

Send == \E sql \in Sqls : \E outcome \in Outcomes : send(sql, outcome)

\* PipelineWorker::push of a query with a type that is not in the cache.
push_unresolved(sql, unresolved, fetch) ==
  /\ ~running /\ Len(queries) + Len(rx) < MaxQueries
  /\ queries' = Append(queries, with_types(QueryState(sql, "ok"), unresolved, fetch))
  /\ UNCHANGED <<cur, inbound, preparing, cache_statement, results, hung, rx,
                 running, polled, write_buffer, has_flushed, next_stmt_id, stmt_ids,
                 visits, flushes, tick_over, tick_len, parse_sent, parse_failed,
                 together, wire>>
  /\ UNCHANGED <<workerVars, cacheVars, txVars, streamVars, fillVars, nullVars, reportVars>>

PushUnresolved ==
  \E sql \in Sqls : \E unresolved \in Unresolved : \E fetch \in Fetches :
    push_unresolved(sql, unresolved, fetch)

\* ------------------------------------------------------------------------
\* The engine on a socket that delivers the answers frame by frame
\* ------------------------------------------------------------------------
\* A frame the server has sent arrives in the connection's read buffer.
recv_frame ==
  /\ wire # <<>>
  /\ inbound' = Append(inbound, Head(wire))
  /\ wire' = Tail(wire)
  /\ UNCHANGED <<queries, cur, preparing, cache_statement, results, hung, rx,
                 running, polled, write_buffer, has_flushed, next_stmt_id, stmt_ids,
                 visits, flushes, tick_over, tick_len, parse_sent, parse_failed,
                 together>>
  /\ UNCHANGED <<workerVars, cacheVars, txVars, streamVars, fillVars, nullVars, reportVars>>

\* The step of the query in state st reads, and the frames that have
\* arrived do not complete its read: QueryState::next stays suspended in it.
suspends(st, frames) ==
  \E step \in {IF st.next_step = "FillCache" THEN st.fill.next_step
                ELSE st.next_step} :
    CASE step = "ReceiveParseDescribe" ->
           recv_expect(frames, <<"ParseComplete", "ParameterDescription",
                                 "RowDescription", "ReadyForQuery">>).outcome = "Pending"
      [] step = "ReceiveData" -> receive_rows(frames, <<>>).outcome = "Pending"
      [] OTHER -> FALSE

\* PipelineWorker::next polled at the query the loop is at: as handle_next,
\* but the answers to a flush arrive later, frame by frame. When the read
\* of the step has to wait for more frames, handle_flush has been done and
\* the future stays suspended in the read, at the same query.
poll_next ==
  /\ running /\ ~hung /\ queries # <<>>
  /\ rx = <<>> \/ ~polled
  /\ \E q \in 1..Len(queries) : queries[q] # None
  /\ \E fl \in {handle_flush(queries[cur], has_flushed)} :
       /\ wire' = IF fl THEN wire \o server_answers(write_buffer) ELSE wire
       /\ flushes' = (IF tick_over THEN 0 ELSE flushes) + (IF fl THEN 1 ELSE 0)
       /\ IF queries[cur] # None /\ suspends(queries[cur], inbound)
          THEN /\ queries' = [queries EXCEPT ![cur].should_flush_before_next = FALSE]
               /\ write_buffer' = IF fl THEN <<>> ELSE write_buffer
               /\ has_flushed' = (has_flushed \/ fl)
               /\ visits' = IF tick_over THEN <<>> ELSE visits
               /\ tick_over' = FALSE
               /\ UNCHANGED <<cur, inbound, preparing, cache_statement, results,
                              hung, next_stmt_id, stmt_ids, parse_sent, parse_failed>>
          ELSE /\ has_flushed' = IF cur = Len(queries) THEN FALSE ELSE (has_flushed \/ fl)
               /\ cur' = next_query(cur)
               /\ tick_over' = (cur = Len(queries))
               /\ IF queries[cur] = None
                  THEN /\ visits' = IF tick_over THEN <<>> ELSE visits
                       /\ write_buffer' = IF fl THEN <<>> ELSE write_buffer
                       /\ UNCHANGED <<queries, inbound, preparing, cache_statement,
                                      results, hung, next_stmt_id, stmt_ids,
                                      parse_sent, parse_failed>>
                  ELSE /\ visits' = Append(IF tick_over THEN <<>> ELSE visits, cur)
                       /\ next(cur, [queries[cur] EXCEPT !.should_flush_before_next = FALSE],
                               inbound, IF fl THEN <<>> ELSE write_buffer)
  /\ tick_len' = Len(queries)
  /\ polled' = (rx # <<>>)
  /\ UNCHANGED <<rx, running, together>>
  /\ UNCHANGED <<workerVars, cacheVars, txVars, streamVars, fillVars, nullVars, reportVars>>

\* main_loop, the branch of select! that receives Command::Query, taken
\* while the visiting future is suspended in a read: the future is dropped
\* with the frames it has received so far (rows it has sent to its caller
\* are sent), and the step of the query, assigned when `next` returns, is
\* the one it had.
recv_command_in_read ==
  /\ running /\ ~hung /\ rx # <<>>
  /\ queries # <<>> /\ queries[cur] # None
  /\ inbound # <<>> /\ suspends(queries[cur], inbound)
  /\ queries' = Append(queries, Head(rx))
  /\ rx' = Tail(rx)
  /\ cur' = 1 /\ has_flushed' = FALSE /\ polled' = FALSE /\ tick_over' = TRUE
  /\ inbound' = <<>>
  /\ results' = IF queries[cur].next_step = "ReceiveData"
                THEN [results EXCEPT ![cur] = @ \o receive_rows(inbound, <<>>).items]
                ELSE results
  /\ UNCHANGED <<preparing, cache_statement, hung, running, write_buffer,
                 next_stmt_id, stmt_ids, visits, flushes, tick_len, parse_sent,
                 parse_failed, together, wire>>
  /\ UNCHANGED <<workerVars, cacheVars, txVars, streamVars, fillVars, nullVars, reportVars>>

\* ------------------------------------------------------------------------
\* FillCache: types rebuilt from the rows of the recursive type fetch
\* ------------------------------------------------------------------------
\* OID 0 stands for the builtin types, 1..MaxOid are custom types.
Builtin == 0

TypeOids == 1..MaxOid

\* The one type name a query asks for.
TypeName == "name"

TypKinds == {"Domain", "Array", "Pseudo", "Range", "Enum", "Composite", "Other"}

\* The OIDs a row refers to: none, the base or element type, or the
\* attribute types of a composite.
Refs(kind) ==
  CASE kind \in {"Domain", "Array"} -> {<<o>> : o \in 0..MaxOid}
    [] kind = "Composite" ->
         UNION {[1..n -> 0..MaxOid] : n \in 0..MaxFields}
    [] OTHER -> {<<>>}

\* FetchByOid: a row of the recursive type fetch.
FetchByOid ==
  UNION {[fetched_oid : TypeOids, kind : {k}, refs : Refs(k)] : k \in TypKinds}

InitFill ==
  /\ fc_step = "ParseDescribe" /\ fc_oids = <<>> /\ fc_named = {}
  /\ fetched = {} /\ name_row = 0
  /\ cache_type_info = {} /\ cache_type_oid = {}
  /\ fc_sent = "-"

\* recursive_find over the attribute types of a composite, one after the
\* other, each on the rows the one before has left.
RECURSIVE recursive_find(_, _)
RECURSIVE find_fields(_, _)
find_fields(rows, refs) ==
  IF refs = <<>> THEN [ty |-> "Some", rows |-> rows]
  ELSE LET r == recursive_find(rows, Head(refs))
       IN IF r.ty = "Some" THEN find_fields(r.rows, Tail(refs)) ELSE r

\* recursive_find: Some when the type of oid is rebuilt from the rows (the
\* row found is removed from them), None when it is not, and a panic at
\* todo!().
recursive_find(rows, oid) ==
  IF oid = Builtin THEN [ty |-> "Some", rows |-> rows]
  ELSE IF \A r \in rows : r.fetched_oid # oid THEN [ty |-> "None", rows |-> rows]
  ELSE LET found_row == CHOOSE r \in rows : r.fetched_oid = oid
           rest == rows \ {found_row}
       IN CASE found_row.kind = "Domain" -> recursive_find(rest, found_row.refs[1])
            [] found_row.kind \in {"Array", "Range"} -> [ty |-> "Panic", rows |-> rest]
            [] found_row.kind \in {"Pseudo", "Enum"} -> [ty |-> "Some", rows |-> rest]
            [] found_row.kind = "Composite" -> find_fields(rest, found_row.refs)
            [] OTHER -> [ty |-> "None", rows |-> rest]

\* The loop over the seed OIDs: each type found is inserted into
\* cache_type_info, and expect("Bug") panics at the first that is not.
RECURSIVE fill_oids(_, _, _)
fill_oids(rows, oids, info) ==
  IF oids = <<>> THEN [ty |-> "Some", rows |-> rows, info |-> info]
  ELSE LET r == recursive_find(rows, Head(oids))
       IN IF r.ty = "Some"
          THEN fill_oids(r.rows, Tail(oids), info \cup {Head(oids)})
          ELSE [ty |-> "Panic", rows |-> r.rows, info |-> info]

\* ParseDescribe with argument types that are not in the type cache: the
\* query goes to FillCache with the OIDs and the names to fetch.
fill_start(oids, named) ==
  /\ fc_step = "ParseDescribe" /\ fc_sent = "-"
  /\ cache_type_info = {} /\ cache_type_oid = {}
  /\ oids # <<>> \/ named # {}
  /\ fc_step' = "FillCache" /\ fc_oids' = oids /\ fc_named' = named
  /\ fetched' = {} /\ name_row' = 0
  /\ UNCHANGED <<cache_type_info, cache_type_oid, fc_sent>>
  /\ UNCHANGED <<workerVars, cacheVars, txVars, streamVars, pipelineVars, nullVars, reportVars>>

\* The nested query yields a row; the row that answers the name carries it.
fetch_row(r, has_name) ==
  /\ fc_step = "FillCache"
  /\ \A f \in fetched : f.fetched_oid # r.fetched_oid
  /\ has_name => fc_named # {} /\ name_row = 0
  /\ fetched' = fetched \cup {r}
  /\ name_row' = IF has_name THEN r.fetched_oid ELSE name_row
  /\ UNCHANGED <<fc_step, fc_oids, fc_named, cache_type_info, cache_type_oid, fc_sent>>
  /\ UNCHANGED <<workerVars, cacheVars, txVars, streamVars, pipelineVars, nullVars, reportVars>>

\* QueryState::next in FillCache when the nested query is done: the names
\* of the rows are cached, then the type of each seed OID and of each seed
\* name is rebuilt and cached, and the query is back in ParseDescribe. A
\* panic unwinds the worker: the senders are dropped and no item is sent.
fill_cache ==
  /\ fc_step = "FillCache"
  /\ cache_type_oid' = cache_type_oid \cup (IF name_row # 0 THEN {TypeName} ELSE {})
  /\ \E a \in {fill_oids(fetched, fc_oids, cache_type_info)} :
       IF a.ty = "Panic"
       THEN /\ fc_step' = "Panicked" /\ cache_type_info' = a.info
       ELSE IF fc_named = {}
       THEN /\ fc_step' = "ParseDescribe" /\ cache_type_info' = a.info
       ELSE IF name_row = 0
       THEN /\ fc_step' = "Panicked" /\ cache_type_info' = a.info
       ELSE \E b \in {recursive_find(a.rows, name_row)} :
              IF b.ty = "Some"
              THEN /\ fc_step' = "ParseDescribe"
                   /\ cache_type_info' = a.info \cup {name_row}
              ELSE /\ fc_step' = "Panicked" /\ cache_type_info' = a.info
  /\ fc_sent' = IF fc_step' = "Panicked" THEN "disconnected" ELSE "-"
  /\ UNCHANGED <<fc_oids, fc_named, fetched, name_row>>
  /\ UNCHANGED <<workerVars, cacheVars, txVars, streamVars, pipelineVars, nullVars, reportVars>>

FillStart ==
  \E oids \in {<<>>} \cup {<<o>> : o \in TypeOids}
                \cup {s \in TypeOids \X TypeOids : s[1] # s[2]} :
    \E named \in {{}, {TypeName}} : fill_start(oids, named)

FetchRow == \E r \in FetchByOid : \E has_name \in BOOLEAN : fetch_row(r, has_name)

\* ------------------------------------------------------------------------
\* Nullability analysis of a SELECT (sqlx-nullable)
\* ------------------------------------------------------------------------
\* The tables of one FROM item are numbered in the order the query names
\* them: table 1 is the relation, table j + 1 is the relation of join j.
TableIds == 1..MaxTables

\* Every table has a column the catalog declares NOT NULL and one it does not.
Columns == {"k", "v"}

catalog_nullable(column_id) == column_id = "v"

\* Option<bool>
Some(b) == <<b>>

NoneB == <<>>

\* Expressions of sqlparser: a compound identifier, a literal that is not
\* NULL, IS NOT NULL, and a binary operation.
CompoundIdentifier(table_id, column_id) == <<"Col", table_id, column_id>>

Value == <<"Lit">>

IsNotNull(e) == <<"IsNotNull", e>>

BinaryOp(left, op, right) == <<"Bin", op, left, right>>

\* A SELECT without WHERE has no selection.
NoSelection == <<>>

\* The join of table j: its operator, the kind of its constraint and the
\* tables the constraint mentions (the tables of the identifiers of ON, the
\* tables that have the column of USING, the tables that share a column name
\* with the joined table for NATURAL).
Join(op, constraint, tables) ==
  [op |-> op, constraint |-> constraint, tables |-> tables]

OuterOrInner == {"Inner", "LeftOuter", "RightOuter", "FullOuter"}

Joins(j) ==
  {Join("CrossJoin", "-", {})}
  \cup {Join(op, "On", ts) : op \in OuterOrInner,
          ts \in {s \in SUBSET (1..j) : j \in s \/ s = {}}}
  \cup {Join(op, c, {i, j}) : op \in OuterOrInner, c \in {"Using", "Natural"},
          i \in 1..(j - 1)}

\* The predicates a WHERE is built from, over the tables 1..n.
Operands(n) ==
  LET cols == {CompoundIdentifier(t, "v") : t \in 1..n}
  IN  cols
      \cup {IsNotNull(c) : c \in cols}
      \cup {BinaryOp(c, "Lt", Value) : c \in cols}

Terms(n) ==
  Operands(n)
  \cup {BinaryOp(CompoundIdentifier(t, "v"), "Eq", Value) : t \in 1..n}

Selections(n) ==
  Terms(n)
  \cup {BinaryOp(l, op, r) :
          l \in Operands(n),
          r \in {Value, BinaryOp(CompoundIdentifier(1, "v"), "Eq", Value)},
          op \in {"And", "Or"}}

InitNullable ==
  /\ nl_joins = <<>>
  /\ nl_selection = NoSelection
  /\ nl_step = "Query"
  /\ nl_nullable = <<>>

\* --- join_resolver.rs ---
JoinResolver(table_id, nullable, leafs) ==
  [table_id |-> table_id, nullable |-> nullable, leafs |-> leafs]

from_base(table_id) == JoinResolver(table_id, Some(FALSE), <<>>)

RECURSIVE add_leaf(_, _, _, _)
add_leaf(self, base, leaf_id, leaf_nullable) ==
  IF base = leaf_id THEN self
  ELSE IF self.table_id = base
  THEN [self EXCEPT
          !.leafs = Append(self.leafs, JoinResolver(leaf_id, leaf_nullable, <<>>))]
  ELSE [self EXCEPT
          !.leafs = [i \in DOMAIN self.leafs |->
                       add_leaf(self.leafs[i], base, leaf_id, leaf_nullable)]]

\* A set_nullable that also sets every entry between the table and the root
\* (the bubbling that join_resolver.rs keeps commented out).
RECURSIVE recursive_bubbling_set_nullable(_, _, _, _)
recursive_bubbling_set_nullable(self, table_id, nullable, depth) ==
  IF self.table_id = table_id
  THEN [self EXCEPT !.nullable = nullable]
  ELSE LET leafs == [i \in DOMAIN self.leafs |->
                       recursive_bubbling_set_nullable(self.leafs[i], table_id,
                                                       nullable, depth + 1)]
       IN  [self EXCEPT
              !.leafs = leafs,
              !.nullable = IF leafs # self.leafs THEN nullable ELSE @]

RECURSIVE recursive_set_nullable(_, _, _, _)
recursive_set_nullable(self, table_id, nullable, depth) ==
  IF self.table_id = table_id
  THEN IF depth # 1 \/ nullable # NoneB
       THEN [self EXCEPT !.nullable = nullable]
       ELSE self
  ELSE [self EXCEPT
          !.leafs = [i \in DOMAIN self.leafs |->
                       recursive_set_nullable(self.leafs[i], table_id, nullable,
                                              depth + 1)]]

set_nullable(self, table_id, nullable) ==
  recursive_set_nullable(self, table_id, nullable, 1)

set_nullable_if_base(self, table_id, nullable) ==
  IF self.table_id = table_id
  THEN [self EXCEPT !.nullable = Some(nullable)]
  ELSE self

set_new_base(self, base) ==
  [from_base(base) EXCEPT !.leafs = <<self>>]

\* Returns the resolver and whether the table was found in it; the loop over
\* the leafs ends at the first leaf that holds the table.
RECURSIVE recursive_collapsing_set_nullable(_, _, _)
RECURSIVE collapsing_leafs(_, _, _, _)
recursive_collapsing_set_nullable(self, table_id, nullable) ==
  IF self.table_id = table_id
  THEN [found |-> TRUE, self |-> [self EXCEPT !.nullable = Some(nullable)]]
  ELSE LET r == collapsing_leafs(self.leafs, 1, table_id, nullable)
       IN  IF r.found
           THEN [found |-> TRUE,
                 self |-> [self EXCEPT !.leafs = r.leafs,
                                       !.nullable = Some(nullable)]]
           ELSE [found |-> FALSE, self |-> self]

collapsing_leafs(leafs, i, table_id, nullable) ==
  IF i > Len(leafs) THEN [found |-> FALSE, leafs |-> leafs]
  ELSE LET r == recursive_collapsing_set_nullable(leafs[i], table_id, nullable)
       IN  IF r.found
           THEN [found |-> TRUE, leafs |-> [leafs EXCEPT ![i] = r.self]]
           ELSE collapsing_leafs(leafs, i + 1, table_id, nullable)

collapsing_set_nullable(self, table_id, nullable) ==
  recursive_collapsing_set_nullable(self, table_id, nullable).self

null(parent_nullable, nullable) ==
  IF nullable # NoneB THEN nullable[1] ELSE parent_nullable

RECURSIVE r_nullables(_, _)
RECURSIVE leafs_nullables(_, _, _)
r_nullables(self, parent_nullable) ==
  LET n == null(parent_nullable, self.nullable)
  IN  <<<<self.table_id, n>>>> \o leafs_nullables(self.leafs, 1, n)

leafs_nullables(leafs, i, parent_nullable) ==
  IF i > Len(leafs) THEN <<>>
  ELSE r_nullables(leafs[i], parent_nullable)
       \o leafs_nullables(leafs, i + 1, parent_nullable)

\* The root of a resolver always holds Some: from_base gives it Some(false)
\* and set_nullable never stores None at depth 1.
get_nullables(self) == r_nullables(self, self.nullable[1])

\* --- join.rs ---
\* The tables of a set in the order of their ids.  The leaf that add_leaf
\* pushes is always the joined table and goes under the node of the table
\* named, and the setters are idempotent, so the resolver a constraint leaves
\* does not depend on the order in which the HashSet yields its tables.
RECURSIVE in_order(_)
in_order(tables) ==
  IF tables = {} THEN <<>>
  ELSE LET t == CHOOSE x \in tables : \A y \in tables : x <= y
       IN  <<t>> \o in_order(tables \ {t})

\* `for right_table in right_tables { resolver.<what>(..) }`
RECURSIVE for_tables(_, _, _, _, _)
for_tables(resolver, right_tables, i, left_table, what) ==
  IF i > Len(right_tables) THEN resolver
  ELSE LET r == right_tables[i]
           stepped ==
             CASE what = "add_leaf" -> add_leaf(resolver, r, left_table, NoneB)
               [] r = left_table -> resolver
               [] what = "set_nullable_if_base" ->
                    set_nullable_if_base(resolver, r, FALSE)
               [] what = "collapsing_set_nullable" ->
                    collapsing_set_nullable(resolver, r, TRUE)
               [] OTHER -> set_nullable(resolver, r, Some(TRUE))
       IN  for_tables(stepped, right_tables, i + 1, left_table, what)

LeftOuter(left_table, right_tables, resolver) ==
  set_nullable(for_tables(resolver, right_tables, 1, left_table, "add_leaf"),
               left_table, Some(TRUE))

Inner(left_table, right_tables, resolver) ==
  for_tables(for_tables(resolver, right_tables, 1, left_table, "add_leaf"),
             right_tables, 1, left_table, "set_nullable_if_base")

RightOuter(left_table, right_tables, resolver) ==
  set_nullable(for_tables(set_new_base(resolver, left_table), right_tables, 1,
                          left_table, "collapsing_set_nullable"),
               left_table, Some(FALSE))

FullOuter(left_table, right_tables, resolver) ==
  set_nullable(
    for_tables(for_tables(resolver, right_tables, 1, left_table, "add_leaf"),
               right_tables, 1, left_table, "set_nullable"),
    left_table, Some(TRUE))

callback(op, left_table, right_tables, resolver) ==
  CASE op = "LeftOuter" -> LeftOuter(left_table, right_tables, resolver)
    [] op = "Inner" -> Inner(left_table, right_tables, resolver)
    [] op = "RightOuter" -> RightOuter(left_table, right_tables, resolver)
    [] OTHER -> FullOuter(left_table, right_tables, resolver)

\* `.find(|table| **table == left_joined_table.table_id).unwrap()`
unwrap_panics(join, left_joined_table) ==
  /\ join.constraint \in {"On", "Using"}
  /\ left_joined_table \notin join.tables

handle_join_constraint(resolver, join, base_table, left_joined_table) ==
  CASE join.constraint = "On" ->
         callback(join.op, left_joined_table, in_order(join.tables), resolver)
    [] join.constraint = "Using" ->
         LET right_tables == in_order(join.tables)
         IN  callback(join.op, left_joined_table, right_tables,
                      for_tables(resolver, right_tables, 1, left_joined_table,
                                 "add_leaf"))
    [] OTHER ->
         LET right_tables == <<base_table, left_joined_table>>
         IN  callback(join.op, left_joined_table, right_tables,
                      for_tables(resolver, right_tables, 1, left_joined_table,
                                 "add_leaf"))

RECURSIVE join_loop(_, _, _)
join_loop(resolver, joins, i) ==
  IF i > Len(joins) THEN resolver
  ELSE LET left_table == i + 1
           joined ==
             IF joins[i].op = "CrossJoin"
             THEN set_nullable_if_base(add_leaf(resolver, 1, left_table, NoneB),
                                       1, FALSE)
             ELSE handle_join_constraint(resolver, joins[i], 1, left_table)
       IN  join_loop(joined, joins, i + 1)

\* A FROM item without joins gets no resolver.
update_from_join(joins) ==
  IF joins = <<>> THEN <<>> ELSE <<join_loop(from_base(1), joins, 1)>>

\* --- wal.rs, context.rs ---
TableNullable(table_id, nullable) == <<"Table", table_id, nullable>>

ColumnNullable(table_id, column_id, nullable) ==
  <<"Column", table_id, column_id, nullable>>

Latest(wal, entries) ==
  LET last == CHOOSE i \in entries : \A j \in entries : j <= i
  IN  wal[last]

nullable_for_col(wal, table_id, column_id) ==
  LET entries == {i \in DOMAIN wal :
                    /\ wal[i][1] = "Column"
                    /\ wal[i][2] = table_id
                    /\ wal[i][3] = column_id}
  IN  IF entries = {} THEN NoneB ELSE Some(Latest(wal, entries)[4])

nullable_for_table(wal, table_id) ==
  LET entries == {i \in DOMAIN wal :
                    wal[i][1] = "Table" /\ wal[i][2] = table_id}
  IN  IF entries = {} THEN NoneB ELSE Some(Latest(wal, entries)[3])

\* A lookup that takes the latest entry of the table whatever it says.
nullable_for_table_col_any_entry(wal, table_id, column_id) ==
  IF nullable_for_col(wal, table_id, column_id) # NoneB
  THEN nullable_for_col(wal, table_id, column_id)[1]
  ELSE IF nullable_for_table(wal, table_id) # NoneB
  THEN nullable_for_table(wal, table_id)[1]
  ELSE catalog_nullable(column_id)

nullable_for_table_col(wal, table_id, column_id) ==
  IF nullable_for_col(wal, table_id, column_id) # NoneB
  THEN nullable_for_col(wal, table_id, column_id)[1]
  ELSE IF nullable_for_table(wal, table_id) = Some(TRUE)
  THEN TRUE
  ELSE catalog_nullable(column_id)

\* --- expr.rs ---
RECURSIVE visit_expr(_, _)
visit_expr(expr, wal) ==
  CASE expr[1] = "Col" -> Some(nullable_for_table_col(wal, expr[2], expr[3]))
    [] expr[1] = "Lit" -> Some(FALSE)
    [] expr[1] = "IsNotNull" -> Some(FALSE)
    [] OTHER ->
         LET left_nullable == visit_expr(expr[3], wal)
             right_nullable == visit_expr(expr[4], wal)
         IN  IF left_nullable = Some(FALSE) /\ right_nullable = Some(FALSE)
             THEN Some(FALSE)
             ELSE IF left_nullable = Some(TRUE) \/ right_nullable = Some(TRUE)
             THEN Some(TRUE)
             ELSE NoneB

get_column(expr) == IF expr[1] = "Col" THEN Some(expr) ELSE NoneB

\* wal.add_column(.., false) and set_nullable(.., Some(false)) on every
\* resolver.
not_null(context, column) ==
  [wal |-> Append(context.wal, ColumnNullable(column[2], column[3], FALSE)),
   resolvers |-> [i \in DOMAIN context.resolvers |->
                    set_nullable(context.resolvers[i], column[2], Some(FALSE))]]

RECURSIVE get_nullable_col(_, _)
get_nullable_col(expr, context) ==
  CASE expr[1] = "IsNotNull" ->
         IF get_column(expr[2]) # NoneB THEN not_null(context, expr[2])
         ELSE context
    [] expr[1] = "Bin" ->
         LET left == expr[3]
             right == expr[4]
             c1 == IF /\ get_column(left) # NoneB
                      /\ visit_expr(right, context.wal) = Some(FALSE)
                   THEN not_null(context, left)
                   ELSE context
             c2 == IF /\ get_column(right) # NoneB
                      /\ visit_expr(left, c1.wal) = Some(FALSE)
                   THEN not_null(c1, right)
                   ELSE c1
         IN  IF expr[2] # "And" THEN c2
             ELSE get_nullable_col(right, get_nullable_col(left, c2))
    [] OTHER -> context

\* --- where_.rs ---
update_from_where(selection, context) ==
  IF selection = NoSelection THEN context
  ELSE get_nullable_col(selection, context)

\* --- select.rs ---
RECURSIVE add_tables(_, _, _)
add_tables(wal, join_nullable, i) ==
  IF i > Len(join_nullable) THEN wal
  ELSE add_tables(Append(wal, TableNullable(join_nullable[i][1],
                                            join_nullable[i][2])),
                  join_nullable, i + 1)

RECURSIVE collapse(_, _, _)
collapse(wal, resolvers, i) ==
  IF i > Len(resolvers) THEN wal
  ELSE collapse(add_tables(wal, get_nullables(resolvers[i]), 1), resolvers,
                i + 1)

\* The context after the joins and the WHERE of the SELECT.
refined(joins, selection) ==
  update_from_where(selection,
                    [wal |-> <<>>, resolvers |-> update_from_join(joins)])

\* The WAL the projection is read from.
final_wal(joins, selection) ==
  LET context == refined(joins, selection)
  IN  collapse(context.wal, context.resolvers, 1)

\* The nullability of every column of every table of the query, selected as
\* `table.column`.
nullable_for(joins, selection) ==
  LET wal == final_wal(joins, selection)
  IN  [p \in (1..(Len(joins) + 1)) \X Columns |->
         nullable_for_table_col(wal, p[1], p[2])]

\* --- the query and its analysis ---
add_join(join) ==
  /\ nl_step = "Query"
  /\ nl_selection = NoSelection
  /\ Len(nl_joins) < MaxTables - 1
  \* nothing is read after a join whose constraint panics
  /\ \A i \in DOMAIN nl_joins : ~unwrap_panics(nl_joins[i], i + 1)
  /\ nl_joins' = Append(nl_joins, join)
  /\ UNCHANGED <<nl_selection, nl_step, nl_nullable>>
  /\ UNCHANGED <<workerVars, cacheVars, txVars, streamVars, pipelineVars,
                 fillVars, reportVars>>

add_selection(selection) ==
  /\ nl_step = "Query"
  /\ nl_selection = NoSelection
  /\ nl_selection' = selection
  /\ UNCHANGED <<nl_joins, nl_step, nl_nullable>>
  /\ UNCHANGED <<workerVars, cacheVars, txVars, streamVars, pipelineVars,
                 fillVars, reportVars>>

get_nullable ==
  /\ nl_step = "Query"
  /\ IF \E i \in DOMAIN nl_joins : unwrap_panics(nl_joins[i], i + 1)
     THEN /\ nl_step' = "Panicked"
          /\ UNCHANGED nl_nullable
     ELSE /\ nl_step' = "Done"
          /\ nl_nullable' = nullable_for(nl_joins, nl_selection)
  /\ UNCHANGED <<nl_joins, nl_selection>>
  /\ UNCHANGED <<workerVars, cacheVars, txVars, streamVars, pipelineVars,
                 fillVars, reportVars>>

AddJoin == \E join \in Joins(Len(nl_joins) + 2) : add_join(join)

AddSelection ==
  \E selection \in Selections(Len(nl_joins) + 1) : add_selection(selection)

\* --- nullable.rs, select_item.rs, set_expr.rs: the report of a statement ---
\* A statement `SELECT items FROM t1 JOIN t2 ON .. [UNION SELECT ..]`: every
\* arm reads the same FROM, so the arms differ in their projections only.
MaxArms == 2

MaxItems == 2

\* NullableResult
NullableResult(value, column_name) ==
  [value |-> value, column_name |-> column_name]

unnamed(value) == NullableResult(value, NoneB)

set_alias(self, alias) ==
  IF alias # NoneB THEN [self EXCEPT !.column_name = alias] ELSE self

\* Projection items: an unqualified identifier, NULL, an aliased expression,
\* a scalar subquery `(SELECT 1 FROM .. WHERE ..)` over the same tables and
\* a CASE expression.
Identifier(column_id) == <<"Ident", column_id>>

Null == <<"Null">>

ExprWithAlias(expr, alias) == <<"Alias", expr, alias>>

Subquery(joins, selection) == <<"Subquery", joins, selection>>

\* An expression visit_expr has no arm for: `CASE WHEN .. END`.
Case == <<"Case">>

FromJoins == {<<Join(op, "On", {1, 2})>> : op \in {"Inner", "LeftOuter"}}

Items ==
  {Identifier("k"), CompoundIdentifier(1, "v"), CompoundIdentifier(2, "k"),
   Value, Null, ExprWithAlias(Null, "k"), Case,
   Subquery(<<Join("LeftOuter", "On", {1, 2})>>, NoSelection),
   Subquery(<<Join("Inner", "On", {1, 2})>>,
            IsNotNull(CompoundIdentifier(1, "v")))}

Projections(width) == [1..width -> Items]

\* The first table of the context that has a column of the name: every
\* table has every column, so it is the first table.
find_col_by_idents(tables, column_id) ==
  <<CHOOSE t \in tables : \A u \in tables : t <= u, column_id>>

\* Select::nullable_for up to the projection: the WAL after the joins and the
\* WHERE of a SELECT analysed in a context that already holds `wal`.
select_wal(wal, joins, selection) ==
  LET context == update_from_where(selection,
                   [wal |-> wal, resolvers |-> update_from_join(joins)])
  IN  collapse(context.wal, context.resolvers, 1)

\* visit_expr with the name of its result and the WAL it leaves behind.
RECURSIVE visit_named(_, _, _, _)
visit_named(expr, alias, wal, tables) ==
  CASE expr[1] = "Col" ->
         [result |-> set_alias(NullableResult(
                       Some(nullable_for_table_col(wal, expr[2], expr[3])),
                       Some(expr[3])), alias),
          wal |-> wal]
    [] expr[1] = "Ident" ->
         LET col == find_col_by_idents(tables, expr[2])
         IN  [result |-> set_alias(NullableResult(
                           Some(nullable_for_table_col(wal, col[1], col[2])),
                           Some(col[2])), alias),
              wal |-> wal]
    [] expr[1] = "Null" ->
         [result |-> set_alias(unnamed(Some(TRUE)), alias), wal |-> wal]
    [] expr[1] = "Alias" -> visit_named(expr[2], Some(expr[3]), wal, tables)
    [] expr[1] = "Subquery" ->
         \* the subquery selects a literal: none of its columns is nullable
         [result |-> set_alias(unnamed(Some(FALSE)), alias),
          wal |-> select_wal(wal, expr[2], expr[3])]
    [] OTHER ->
         [result |-> set_alias(unnamed(Some(FALSE)), alias), wal |-> wal]

visit_select_item(select_item, wal, tables) ==
  visit_named(select_item, NoneB, wal, tables)

\* The projection of a SELECT, item by item, on the WAL the items before
\* left behind.
RECURSIVE projection(_, _, _, _, _)
projection(items, i, wal, tables, n) ==
  IF i > Len(items) THEN [nullable |-> n, wal |-> wal]
  ELSE LET r == visit_select_item(items[i], wal, tables)
       IN  projection(items, i + 1, r.wal, tables, Append(n, r.result))

\* Select::nullable_for
select(wal, joins, items) ==
  projection(items, 1, select_wal(wal, joins, NoSelection),
             1..(Len(joins) + 1), <<>>)

\* SetExpr::nullable_for: the right arm is analysed before the left one,
\* `arms` are in the order of the statement.
RECURSIVE set_expr(_, _, _, _)
set_expr(arms, i, wal, joins) ==
  IF i = 0 THEN <<>>
  ELSE LET r == select(wal, joins, arms[i])
       IN  <<r.nullable>> \o set_expr(arms, i - 1, r.wal, joins)

\* StatementNullable::flatten
combine(first, second) ==
  CASE first # NoneB /\ second # NoneB -> Some(first[1] \/ second[1])
    [] first # NoneB -> first
    [] OTHER -> second

flatten_col(first, col) ==
  LET value == combine(first.value, col.value)
  IN  IF first.column_name # NoneB THEN [first EXCEPT !.value = value]
      ELSE IF col.column_name # NoneB
      THEN NullableResult(value, col.column_name)
      ELSE first

RECURSIVE flatten_rows(_, _, _)
flatten_rows(first, rows, i) ==
  IF i > Len(rows) THEN first
  ELSE flatten_rows([p \in DOMAIN first |-> flatten_col(first[p], rows[i][p])],
                    rows, i + 1)

flatten(nullables) ==
  IF nullables = <<>> THEN <<>>
  ELSE flatten_rows(nullables[Len(nullables)],
                    SubSeq(nullables, 1, Len(nullables) - 1), 1)

\* Nullable::nullable
l_find_index(self, col_name) ==
  LET found == {i \in DOMAIN self : self[i].column_name = Some(col_name)}
  IN  IF found = {} THEN <<>>
      ELSE <<CHOOSE i \in found : \A j \in found : i <= j>>

r_find_index(self, col_name) ==
  LET found == {i \in DOMAIN self : self[i].column_name = Some(col_name)}
  IN  IF found = {} THEN <<>>
      ELSE <<CHOOSE i \in found : \A j \in found : j <= i>>

\* A lookup that takes the left-most column of the name.
nullable_left_most(self, col_name, index) ==
  IF l_find_index(self, col_name) # <<>>
  THEN self[l_find_index(self, col_name)[1]].value
  ELSE self[index].value

nullable(self, col_name, index) ==
  IF /\ l_find_index(self, col_name) # <<>>
     /\ l_find_index(self, col_name) = r_find_index(self, col_name)
  THEN self[l_find_index(self, col_name)[1]].value
  ELSE self[index].value

unwrap_or(value, default) == IF value = NoneB THEN default ELSE value[1]

get_nullable_final(nullables, cols) ==
  [index \in DOMAIN cols |->
     unwrap_or(nullable(flatten(nullables), cols[index], index), TRUE)]

\* The names the database gives the output columns: the names of the first
\* arm, `?column?` for an expression without one.
column_name(item) ==
  CASE item[1] = "Col" -> item[3]
    [] item[1] = "Ident" -> item[2]
    [] item[1] = "Alias" -> item[3]
    [] OTHER -> "?column?"

describe(arms) == [i \in DOMAIN arms[1] |-> column_name(arms[1][i])]

\* The fallback arm of visit_expr: `_ => unimplemented!("{:?}", expr)`.
unimplemented(arms) ==
  \E a \in DOMAIN arms : \E i \in DOMAIN arms[a] : arms[a][i] = Case

InitReport ==
  /\ rp_joins = <<>>
  /\ rp_arms = <<>>
  /\ rp_step = "From"
  /\ rp_nullables = <<>>
  /\ rp_result = <<>>

\* NullableState::new: the parsed statement, its FROM and its arms.
from(joins) ==
  /\ rp_step = "From"
  /\ rp_joins' = joins
  /\ rp_step' = "Arms"
  /\ UNCHANGED <<rp_arms, rp_nullables, rp_result>>
  /\ UNCHANGED <<workerVars, cacheVars, txVars, streamVars, pipelineVars,
                 fillVars, nullVars>>

add_arm(items) ==
  /\ rp_step = "Arms"
  /\ Len(rp_arms) < MaxArms
  /\ rp_arms # <<>> => Len(items) = Len(rp_arms[1])
  /\ rp_arms' = Append(rp_arms, items)
  /\ UNCHANGED <<rp_joins, rp_step, rp_nullables, rp_result>>
  /\ UNCHANGED <<workerVars, cacheVars, txVars, streamVars, pipelineVars,
                 fillVars, nullVars>>

\* NullableState::get_nullable with the names of the output columns.
get_nullable_cols(cols) ==
  /\ rp_step = "Arms"
  /\ rp_arms # <<>>
  /\ IF unimplemented(rp_arms)
     THEN /\ rp_step' = "Panicked"
          /\ UNCHANGED <<rp_nullables, rp_result>>
     ELSE /\ rp_nullables' = set_expr(rp_arms, Len(rp_arms), <<>>, rp_joins)
          /\ rp_result' = get_nullable_final(rp_nullables', cols)
          /\ rp_step' = "Done"
  /\ UNCHANGED <<rp_joins, rp_arms>>
  /\ UNCHANGED <<workerVars, cacheVars, txVars, streamVars, pipelineVars,
                 fillVars, nullVars>>

From == \E joins \in FromJoins : from(joins)

AddArm ==
  \E width \in 1..MaxItems : \E items \in Projections(width) : add_arm(items)

GetNullableCols ==
  /\ rp_arms # <<>>
  /\ \E cols \in {describe(rp_arms)} : get_nullable_cols(cols)

\* A poll in which the socket delivers everything in flight and takes the
\* whole write buffer.
WorkerPollFull ==
  /\ poll(Len(net), FALSE)
  /\ wbuf' = <<>>

Init ==
  InitWorker /\ InitCache /\ InitTx /\ InitStream /\ InitPipeline /\ InitFill
  /\ InitNullable /\ InitReport

\* The worker with its connection, server and pipes.
Next ==
  \/ StartPipe \/ close \/ WorkerPoll
  \/ ServerAnswer \/ ServerConsume \/ ServerAsync
  \/ PipeDrop

Spec == Init /\ [][Next]_vars

\* The same with a worker whose future may return an error, and reading pipes.
NextCrash ==
  \/ StartPipe \/ WorkerPoll \/ WorkerFail
  \/ ServerAnswer \/ ServerConsume
  \/ PipeRecv \/ PipeDrop

SpecCrash == Init /\ [][NextCrash]_vars

\* The worker is polled again whenever its wakers fire, the sockets make
\* progress and the server answers what it has received; a read of the socket
\* may fail at any time.
NextFair ==
  \/ StartPipe \/ close \/ WorkerPoll \/ WorkerPollFull \/ WorkerFail
  \/ ServerAnswer \/ ServerConsume \/ ServerAsync

FairSpec ==
  /\ Init /\ [][NextFair]_vars
  /\ WF_vars(WorkerPollFull) /\ WF_vars(ServerAnswer) /\ WF_vars(ServerConsume)

\* Tasks executing one SQL text through the statement cache.
NextCache ==
  \/ GetOrPrepare \/ WaitSet \/ WaitTimeout \/ CheckedInsert \/ PrepareUnstored
  \/ CloseComplete \/ RemoveNotify \/ clear_cached_statements

SpecCache == Init /\ [][NextCache]_vars

\* The same where every prepare that does not fail returns, every Close is
\* answered, and every wait ends with the event or with the 2 s timer.
FairCache ==
  /\ Init /\ [][NextCache]_vars
  /\ \A t \in Tasks :
       /\ WF_vars(checked_insert(t)) /\ WF_vars(prepare_unstored(t))
       /\ WF_vars(close_complete(t))
       /\ WF_vars(wait_set(t)) /\ WF_vars(wait_timeout(t))

\* Transaction operations called one after the other on a connection.
NextTx ==
  \/ Begin \/ begin_ready \/ commit \/ rollback \/ end_ready \/ guard_drop
  \/ execute_rejected \/ execute_ready \/ ServerStatement

SpecTx == Init /\ [][NextTx]_vars

\* Queries pushed to a pipeline and sent to its worker, and the worker's loop.
NextPipeline ==
  \/ PreparedEarlier \/ Push \/ spawn \/ Send \/ recv_command \/ handle_next

SpecPipeline == Init /\ [][NextPipeline]_vars

\* The engine with queries whose types have to be fetched. main_loop is a
\* spawned task that yield_now wakes again after every visit, so a visit
\* that can be made is made, and so is the receipt of a command that waits
\* in the channel.
NextFetchPipeline ==
  \/ Push \/ PushUnresolved \/ spawn \/ Send \/ recv_command \/ handle_next

FairPipeline ==
  /\ Init /\ [][NextFetchPipeline]_vars
  /\ WF_vars(handle_next) /\ WF_vars(recv_command)

\* The engine on a socket, with commands that arrive while it runs.
NextSocket ==
  \/ Push \/ spawn \/ Send \/ recv_command \/ recv_command_in_read
  \/ poll_next \/ recv_frame

SpecSocket == Init /\ [][NextSocket]_vars

\* A query whose types are fetched and rebuilt.
NextFill == FillStart \/ FetchRow \/ fill_cache

SpecFill == Init /\ [][NextFill]_vars

\* A SELECT is written join by join, then its WHERE, and analysed.
NextNullable == AddJoin \/ AddSelection \/ get_nullable

SpecNullable == Init /\ [][NextNullable]_vars

\* The report of a statement with set operations and subqueries.
NextReport == From \/ AddArm \/ GetNullableCols

SpecReport == Init /\ [][NextReport]_vars

NextStream == ForwardFrame \/ stream_next

SpecStream == Init /\ [][NextStream]_vars

\* The same where the worker may end at any moment.
NextTxCrash ==
  \/ Begin \/ begin_ready \/ commit \/ rollback \/ end_ready \/ guard_drop
  \/ execute_rejected \/ execute_ready \/ ServerStatement
  \/ worker_exit \/ recv_crashed

SpecTxCrash == Init /\ [][NextTxCrash]_vars

\* The same as SpecTx where every guard still open is dropped in the end
\* (a guard is dropped when its scope ends) and the server answers.
FairTx == Init /\ [][NextTx]_vars /\ WF_vars(guard_drop) /\ WF_vars(ServerStatement)

\* ------------------------------------------------------------------------
\* Properties
\* ------------------------------------------------------------------------
Submitted == 1..Len(reqs)

Range(s) == {s[i] : i \in 1..Len(s)}

\* The requests that still wait for frames, front first.
Pending ==
  (IF currently_handling # 0 THEN <<currently_handling>> ELSE <<>>) \o back_log

IsPrefix(s, t) == Len(s) <= Len(t) /\ SubSeq(t, 1, Len(s)) = s

\* Frames the server has emitted and the worker has not parsed yet.
Unread == rbuf \o net

RfqAt(s) == {i \in 1..Len(s) : s[i].fmt = "ReadyForQuery"}

OwnFrames(r) == SelectSeq(dl[r], LAMBDA f : f.owner = r)

\* The worker has parsed every frame of the answer to r.
AnswerRead(r) ==
  /\ alive /\ r \in Submitted
  /\ r \notin Range(chan) \cup Range(wbuf) \cup Range(srvIn)
  /\ \A i \in 1..Len(Unread) : Unread[i].owner # r

AllRfq == \A r \in Submitted : reqs[r].pipe_until = "ReadyForQuery"

AllAnsweredByRfq ==
  \A r \in Submitted : reqs[r].resp[Len(reqs[r].resp)] = "ReadyForQuery"

Terminators(s) ==
  Cardinality({i \in 1..Len(s) : s[i].fmt \in {"ReadyForQuery", "CopyInResponse"}})

\* C2: in every poll of the worker, no more requests are completed than
\* ReadyForQuery/CopyInResponse frames were parsed, and a poll that parses only
\* NotificationResponse, NoticeResponse or ParameterStatus frames completes no
\* request and removes none from the requests that wait for frames.
C2_AsyncNeverAdvances ==
  [][ (alive' /\ Len(Unread') <= Len(Unread)) =>
      LET parsed == SubSeq(Unread, 1, Len(Unread) - Len(Unread')) IN
        /\ Cardinality({r \in Ids : endedBy'[r] # endedBy[r]}) <= Terminators(parsed)
        /\ (\A i \in 1..Len(parsed) : parsed[i].fmt \in AsyncFormats)
             => endedBy' = endedBy /\ IsPrefix(Pending, Pending') ]_vars

C2_Witness ==
  \E r \in Submitted :
    /\ r \in Range(Pending) /\ endedBy[r] = "-"
    /\ \E i \in 1..Len(dl[r]) : dl[r][i].fmt \in AsyncFormats
    /\ notif_chan = 0

HasTerminator(r) ==
  \E i \in 1..Len(dl[r]) : handle_done(reqs[r].pipe_until, i - 1, dl[r][i].fmt)

Answerable(r) ==
  \E i \in 1..Len(reqs[r].resp) : handle_done(reqs[r].pipe_until, i - 1, reqs[r].resp[i])

\* C6: a pipe holds no frame of the answer to another request, and once the
\* worker has parsed the whole answer to a request whose pipe is not dropped,
\* the pipe holds exactly the frames of that answer.
C6_OnlyOwnFrames ==
  \A r \in Submitted :
    /\ \A i \in 1..Len(dl[r]) : dl[r][i].owner \in {0, r}
    /\ (AnswerRead(r) /\ pst[r] # "dropped") => Formats(OwnFrames(r)) = reqs[r].resp

\* C7: a request is popped exactly when a frame its own predicate accepts has
\* been forwarded: the frame on which it was popped is accepted by its
\* predicate, and a one-response request is popped once a frame was forwarded.
C7_CompletedByOwnPredicate ==
  \A r \in Submitted :
    /\ endedBy[r] # "-" => handle_done(reqs[r].pipe_until, fwd[r] - 1, endedBy[r])
    /\ (reqs[r].pipe_until = "NumResponses" /\ fwd[r] >= 1) => endedBy[r] # "-"

\* C8: when a pipe is dropped before a frame its predicate accepts has
\* arrived, every request submitted after it still receives frames of its own
\* answer only, and all of them once the worker has parsed that answer.
C8_DropKeepsSync ==
  \A r \in Submitted : \A f \in Submitted :
    (pst[r] = "dropped" /\ ~HasTerminator(r) /\ f > r /\ reqs[f].pipe_until # "None") =>
      /\ \A i \in 1..Len(dl[f]) : dl[f][i].owner \in {0, f}
      /\ (AnswerRead(f) /\ pst[f] # "dropped") => Formats(OwnFrames(f)) = reqs[f].resp

\* C9: once the worker future has returned an error, no sender of a response
\* channel is left (a pipe that has taken its queued frames gets WorkerCrashed
\* instead of Pending), the request channel is gone, and start_pipe accepts no
\* request and returns WorkerCrashed.
C9_CrashObserved ==
  [][ ~alive' =>
        /\ \A r \in Ids : ~sender'[r]
        /\ chan' = <<>>
        /\ reqs' = reqs
        /\ last_start' # last_start => last_start' = "WorkerCrashed"
        /\ \A r \in Ids : (pst[r] = "open" /\ pst'[r] # "open" /\ ~alive)
             => pst'[r] \in {"crashed", "dropped"} ]_vars

C9_Witness ==
  /\ ~alive /\ last_start = "WorkerCrashed"
  /\ \E r \in Submitted : pst[r] = "crashed" /\ endedBy[r] = "-"

\* The calls made so far for SQL text k all have store_to_cache set.
OnlyPersistent(k) == \A t \in Tasks : (tpc[t] # "idle" /\ tsql[t] = k) => persistent[t]

\* C3: for a SQL text S executed only as a persistent statement, every Parse
\* for S but one follows a prepare of S that failed or an entry of S leaving
\* the cache: no two tasks prepare S at a time, and no task prepares S once
\* it is cached.
C3_SingleFlight ==
  \A k \in Sqls : OnlyPersistent(k) => parses[k] - failures[k] <= 1 + evicted[k]

\* No operation is running on the connection.
Returned == txop = "none"

\* C4 as stated: whenever the operations called so far have returned, the
\* depth is the number of BEGIN/SAVEPOINT statements that succeeded minus the
\* number of COMMIT/ROLLBACK/RELEASE statements that succeeded, and it is
\* never negative.
C4_DepthIsBalance ==
  /\ transaction_depth >= 0
  /\ Returned => transaction_depth = okBegin - okEnd

\* C4, amended: the same once the server has also executed the ROLLBACK
\* statements that guard drops have queued.
C4_DepthIsBalanceWhenQuiet ==
  /\ transaction_depth >= 0
  /\ (Returned /\ txq = <<>>) => transaction_depth = okBegin - okEnd

C4_Witness ==
  /\ Returned /\ txq = <<>>
  /\ okBegin >= 2 /\ okEnd >= 2 /\ transaction_depth = 0
  /\ tx_last = "dropped"

\* C5: every request with a predicate other than None, to which the server
\* sends a frame its predicate accepts, eventually has that frame forwarded to
\* its channel, unless the worker fails.
C5_EventuallyTerminated ==
  \A r \in Ids :
    (r \in Submitted /\ reqs[r].pipe_until # "None" /\ Answerable(r))
      ~> (~alive \/ HasTerminator(r))

\* C10: a worker in state Closing with nothing left to answer eventually is
\* in state Closed.
C10_ClosingReachesClosed ==
  (state = "Closing" /\ back_log = <<>> /\ currently_handling = 0) ~> (state = "Closed")


\* Bytes the worker has written and the server has not consumed yet.
Outgoing == srvIn \o wbuf

Terminates(s) == Cardinality({i \in 1..Len(s) : s[i] = Terminate})

\* C11: the worker writes Terminate only in the poll that takes it from Open
\* to Closing on a closed channel, once, behind the bytes of every request
\* it accepted and with the channel drained, and the flush flag is set unless
\* that poll already flushed; a worker that is Closing stays Closing, accepts
\* no request and writes nothing more; and a worker whose channel is closed
\* does get to Closing unless it fails first.
C11_CloseWritesOneTerminate ==
  /\ [][ alive' =>
          /\ (state = "Open" /\ state' # "Open") =>
                /\ chanClosed /\ state' = "Closing" /\ chan' = <<>>
                /\ Terminates(Outgoing') = 1
                /\ Outgoing'[Len(Outgoing')] = Terminate
                /\ should_flush' \/ wbuf' = <<>>
          /\ Terminates(Outgoing') > Terminates(Outgoing) => state = "Open" /\ state' = "Closing"
          /\ state = "Closing" =>
                /\ state' = "Closing"
                /\ Len(Outgoing') <= Len(Outgoing)
                /\ Len(Pending') <= Len(Pending) ]_vars
  /\ ((chanClosed /\ alive) ~> (state = "Closing" \/ ~alive))

C11_Witness ==
  /\ state = "Closing" /\ alive
  /\ Len(Outgoing) >= 2 /\ Outgoing[Len(Outgoing)] = Terminate
  /\ Outgoing[1] # Terminate

\* The in-flight markers in cache c.
Markers(c) == {c[i] : i \in {j \in 1..Len(c) : c[j].status = "InFlight"}}

Events == 1..MaxTasks

\* C12: no marker leaves the cache without its event having been set (the
\* installer sets it when it replaces or removes the marker), and every event
\* a task blocks on is eventually set.
C12_WaitersSignalled ==
  /\ [][\A e \in Markers(cache) : e \notin Markers(cache') => e.id \in events_set']_vars
  /\ \A e \in Events :
       (\E t \in Tasks : tpc[t] = "waiting" /\ waiting[t] = e) ~> (e \in events_set)

\* C13: every statement id whose Cached entry was displaced from the cache
\* is closed on the server, or is the one a task is sending Close for.
C13_DisplacedClosed ==
  displaced \subseteq closed \cup {tclose[t] : t \in {u \in Tasks : tpc[u] = "closing"}}

\* The calls for SQL text k all have store_to_cache unset and are finished.
OnlyUnstoredDone(k) ==
  /\ \E t \in Tasks : tsql[t] = k
  /\ \A t \in Tasks : tsql[t] = k => ~persistent[t] /\ tpc[t] \in {"cached", "prepared", "failed"}

\* C14: once the executions of a SQL text with persistent = false are
\* finished, none having been persistent, the cache has no entry for it.
C14_NoEntryWithoutPersistent ==
  \A k \in Sqls : OnlyUnstoredDone(k) => Find(cache, k) = 0

\* The ROLLBACK that start_rollback queues at depth d, which nobody awaits.
GuardRollback(d) ==
  Statement(rollback_ansi_transaction_sql(d).sql, rollback_ansi_transaction_sql(d).sp, FALSE)

\* C15 as stated: the depth goes up only when begin has the successful answer
\* to its BEGIN/SAVEPOINT, goes down only when commit or rollback has the
\* answer to its statement, and never changes in a step that queues a
\* statement.
C15_DepthAfterRoundTrip ==
  [][ /\ transaction_depth' > transaction_depth =>
           txop = "begin" /\ txres.ok /\ txres.status = "Transaction"
      /\ transaction_depth' < transaction_depth =>
           txop \in {"commit", "rollback"} /\ txres # NoAnswer
      /\ transaction_depth' # transaction_depth => txq' = txq ]_vars

\* C15, amended: the depth goes up by one only when begin has the successful
\* answer to its BEGIN/SAVEPOINT; it goes down by one only when commit or
\* rollback has the successful answer to its statement, or when a guard is
\* dropped, at the moment start_rollback queues the ROLLBACK nobody awaits.
C15_DepthAfterAwaitedRoundTrip ==
  [][ /\ transaction_depth' > transaction_depth =>
           /\ txop = "begin" /\ txres.ok /\ txres.status = "Transaction"
           /\ transaction_depth' = transaction_depth + 1 /\ txq' = txq
      /\ transaction_depth' < transaction_depth =>
           /\ transaction_depth' = transaction_depth - 1
           /\ \/ txop \in {"commit", "rollback"} /\ txres.ok /\ txq' = txq
              \/ txq' = Append(txq, GuardRollback(transaction_depth)) ]_vars

C15_Witness ==
  /\ tx_last = "dropped" /\ transaction_depth = 1
  /\ okBegin = 2 /\ okEnd = 0
  /\ txq = <<GuardRollback(2)>>

\* Nothing but guard drops is left to do on the connection.
Unwinding == opsLeft = 0 /\ txop = "none"

\* C16: a guard drop at depth d > 0 leaves depth d - 1 and queues the one
\* ROLLBACK of level d; at depth 0 it changes neither the depth nor the
\* queue; and when the open guards are dropped, the depth reaches zero.
C16_DropsConverge ==
  /\ [][guard_drop =>
          IF transaction_depth > 0
          THEN /\ transaction_depth' = transaction_depth - 1
               /\ txq' = Append(txq, GuardRollback(transaction_depth))
          ELSE transaction_depth' = 0 /\ txq' = txq]_vars
  /\ Unwinding ~> (transaction_depth = 0)

C16_Witness ==
  /\ Unwinding /\ tx_last = "dropped" /\ transaction_depth = 0
  /\ txq = <<GuardRollback(2), GuardRollback(1)>>

\* C17: a guard drop at depth > 0 queues exactly one ROLLBACK when the worker
\* takes requests, and does not panic, whether the worker takes requests or
\* is gone.
C17_DropIsSilent ==
  [][(guard_drop /\ transaction_depth > 0) =>
        /\ ~panicked'
        /\ ~worker_gone => txq' = Append(txq, GuardRollback(transaction_depth))]_vars

\* begin returns in this step.
BeginReturns == txop = "begin" /\ txop' = "none"

\* C18 as stated: when begin returns and the connection's transaction status
\* is not Transaction, it returns BeginFailed and the depth is what it was.
C18_BeginFailedKeepsDepth ==
  [][(BeginReturns /\ transaction_status' # "Transaction") =>
        /\ tx_last' = "BeginFailed"
        /\ transaction_depth' = transaction_depth]_vars

\* C18, amended: when the statement of begin was answered without an error
\* and the status of its ReadyForQuery is not Transaction, begin returns
\* BeginFailed, the depth is what it was and nothing is queued; when the
\* server rejected the statement, begin returns the server's error and the
\* status is not read.
C18_BeginFailedWhenNotOpened ==
  [][BeginReturns =>
        /\ (txres.ok /\ txres.status # "Transaction") =>
              /\ tx_last' = "BeginFailed"
              /\ transaction_status' = txres.status
              /\ transaction_depth' = transaction_depth /\ txq' = txq
        /\ (txres # NoAnswer /\ ~txres.ok) =>
              /\ tx_last' = "Database"
              /\ transaction_status' = transaction_status
        /\ tx_last' = "BeginFailed" => txres.ok /\ transaction_depth = 0]_vars

C18_Witness ==
  /\ tx_last = "BeginFailed" /\ transaction_status = "Idle"
  /\ transaction_depth = 0 /\ okBegin >= 1 /\ okEnd >= 1

\* The ReadyForQuery frames among the frames in s.
ReadyForQueries(s) == {i \in 1..Len(s) : s[i].format = "ReadyForQuery"}

\* C19: the stream has ended without an error exactly when it has received
\* a ReadyForQuery, which is then the last frame it received and the only
\* ReadyForQuery among them, and the connection's transaction status is the
\* one that frame carries; a stream that has ended or failed receives no
\* further frame and yields no further item.
C19_EndsAtReadyForQuery ==
  /\ [](rs_state = "done" <=> ReadyForQueries(rs_read) # {})
  /\ [](rs_state = "done" =>
          /\ ReadyForQueries(rs_read) = {Len(rs_read)}
          /\ transaction_status = rs_read[Len(rs_read)].status)
  /\ [][rs_state # "running" =>
          rs_items' = rs_items /\ rs_read' = rs_read /\ rs_state' = rs_state]_vars

C19_Witness ==
  /\ rs_state = "done" /\ transaction_status = "Transaction"
  /\ rs_items = <<"DataRow", "CommandComplete">>
  /\ Len(rs_read) = 3

\* C20: an error is sent only to the caller of a query whose own statement
\* failed; a query receives only items of its own responses; when a query
\* has been detached or is finished, none of its frames is left to be
\* received; and the engine never waits for a frame that will not come.
C20_FailureIsolated ==
  /\ ~hung
  /\ \A q \in 1..Len(queries) : \A i \in 1..Len(results[q]) :
       results[q][i].owner \in {0, q}
  /\ \A q \in 1..Len(queries) :
       queries[q] = None =>
         \A i \in 1..Len(inbound) : inbound[i].owner # q

\* The live queries whose SQL text is s.
Sharing(s) == {q \in 1..Len(queries) : queries[q] # None /\ queries[q].sql = s}

Preparing(s) ==
  {q \in Sharing(s) : queries[q].next_step \in {"ParseDescribe", "ReceiveParseDescribe"}}

Executing(s) ==
  {q \in Sharing(s) : queries[q].next_step \in {"BindExecuteClose", "ReceiveData"}}

\* Queries of one SQL text execute with the statement id that is cached for
\* it, and wait in GetOrPrepare while another one prepares it.
SameStatement ==
  \A s \in Sqls :
    /\ \A q \in Executing(s) : queries[q].stmt # 0 /\ queries[q].stmt = cache_statement[s]
    /\ Cardinality(Preparing(s)) <= 1
    /\ Preparing(s) # {} => cache_statement[s] = 0 /\ s \in preparing

LiveInTick == {q \in 1..tick_len : queries[q] # None}

NoRepeat(s) == \A i, j \in 1..Len(s) : s[i] = s[j] => i = j

\* The step is a visit before which the write buffer is flushed.
Flushing == handle_next /\ handle_flush(queries[cur], has_flushed)

OwnItems(q) ==
  {<<Item("DataRow", q), Item("CommandComplete", q), Item("None", 0)>>,
   <<Item("Err", q), Item("None", 0)>>}

\* Query q has written its Bind, Execute, Close, Sync.
Written(q) == queries[q] = None \/ queries[q].next_step = "ReceiveData"

\* Query q has received from the connection.
Received(q) == queries[q] = None \/ results[q] # <<>>

\* C23: of the queries the engine starts with, all of them prepared
\* already, none receives before each of them has written its Bind,
\* Execute, Close, Sync; and each of them receives its own answer and
\* nothing else (the groups are answered in the order they were written).
C23_PipelinedInOrder ==
  \A q \in together :
    /\ Received(q) => \A p \in together : Written(p)
    /\ queries[q] = None => results[q] \in OwnItems(q)
    /\ \A i \in 1..Len(results[q]) : results[q][i].owner \in {0, q}

\* The rows allow the type of oid to be rebuilt: its row is among them, of
\* a kind the rebuild produces, and so is every type it refers to.
RECURSIVE Resolvable(_, _, _)
Resolvable(rows, oid, n) ==
  \/ oid = Builtin
  \/ /\ n > 0
     /\ \E r \in rows :
          /\ r.fetched_oid = oid
          /\ CASE r.kind = "Domain" -> Resolvable(rows, r.refs[1], n - 1)
               [] r.kind \in {"Pseudo", "Enum"} -> TRUE
               [] r.kind = "Composite" ->
                    \A i \in 1..Len(r.refs) : Resolvable(rows, r.refs[i], n - 1)
               [] OTHER -> FALSE

\* The nested query is done and a seed OID or the seed name cannot be rebuilt.
Unresolvable ==
  /\ fc_step # "FillCache" /\ (fc_oids # <<>> \/ fc_named # {})
  /\ \/ \E i \in 1..Len(fc_oids) : ~Resolvable(fetched, fc_oids[i], MaxOid)
     \/ fc_named # {} /\ (name_row = 0 \/ ~Resolvable(fetched, name_row, MaxOid))

\* C24: the engine does not panic while it rebuilds the types; when a seed
\* OID or type name cannot be rebuilt from the rows, the caller of the
\* request is sent an error and nothing of the request is in the type cache.
C24_UnresolvableFails ==
  /\ fc_step # "Panicked"
  /\ Unresolvable => fc_sent = "Err" /\ cache_type_info = {}

\* ------------------------------------------------------------------------
\* Nullability analysis: what the query can return
\* ------------------------------------------------------------------------
\* A row of the join result is described by the tables that contribute a row
\* of their own to it (the others are NULL-extended) and by the tables whose
\* column v holds NULL.  JoinedRows gives the sets of contributing tables the
\* first i joins can produce on some instance of the schema: a constraint is
\* true only where every table it mentions contributes a row.
RECURSIVE JoinedRows(_, _)
JoinedRows(joins, i) ==
  IF i = 0 THEN {{1}}
  ELSE LET before == JoinedRows(joins, i - 1)
           j == i + 1
           matched == {p \cup {j} :
                         p \in {q \in before : joins[i].tables \ {j} \subseteq q}}
       IN  CASE joins[i].op = "CrossJoin" -> {p \cup {j} : p \in before}
             [] joins[i].op = "Inner" -> matched
             [] joins[i].op = "LeftOuter" -> matched \cup before
             [] joins[i].op = "RightOuter" -> matched \cup {{j}}
             [] OTHER -> matched \cup before \cup {{j}}

Rows(joins) ==
  {[present |-> p, vnull |-> n] :
     p \in JoinedRows(joins, Len(joins)), n \in SUBSET TableIds}

HoldsNull(row, table_id, column_id) ==
  \/ table_id \notin row.present
  \/ column_id = "v" /\ table_id \in row.vnull

And3(a, b) ==
  IF a = "F" \/ b = "F" THEN "F" ELSE IF a = "T" /\ b = "T" THEN "T" ELSE "N"

Or3(a, b) ==
  IF a = "T" \/ b = "T" THEN "T" ELSE IF a = "F" /\ b = "F" THEN "F" ELSE "N"

\* The truth values an expression can take on a row, over the values the
\* columns that are not NULL and the literals can have.
RECURSIVE Truth(_, _)
Truth(expr, row) ==
  CASE expr[1] = "Col" ->
         IF HoldsNull(row, expr[2], expr[3]) THEN {"N"} ELSE {"T", "F"}
    [] expr[1] = "Lit" -> {"T", "F"}
    [] expr[1] = "IsNotNull" ->
         IF HoldsNull(row, expr[2][2], expr[2][3]) THEN {"F"} ELSE {"T"}
    [] expr[1] = "Bin" /\ expr[2] = "And" ->
         {And3(a, b) : a \in Truth(expr[3], row), b \in Truth(expr[4], row)}
    [] expr[1] = "Bin" /\ expr[2] = "Or" ->
         {Or3(a, b) : a \in Truth(expr[3], row), b \in Truth(expr[4], row)}
    [] OTHER ->
         IF "N" \in Truth(expr[3], row) \cup Truth(expr[4], row)
         THEN {"N"} ELSE {"T", "F"}

\* The rows the query can return: the WHERE keeps a row on which it is true.
Returned_rows(joins, selection) ==
  {row \in Rows(joins) :
     selection = NoSelection \/ "T" \in Truth(selection, row)}

CanReturnNull(joins, selection, table_id, column_id) ==
  \E row \in Returned_rows(joins, selection) :
    HoldsNull(row, table_id, column_id)

\* C25: a column reported not-null is NULL in no row the query can return.
C25_Sound ==
  nl_step = "Done" =>
    \A p \in DOMAIN nl_nullable :
      ~nl_nullable[p] =>
        ~CanReturnNull(nl_joins, nl_selection, p[1], p[2])

\* The query without its last join, the last join and the table it joins.
Front(joins) == SubSeq(joins, 1, Len(joins) - 1)

LastJoin == nl_joins[Len(nl_joins)]

Joined == Len(nl_joins) + 1

\* The analysis is done, the SELECT has no WHERE and its last join has
\* operator op.
EndsWith(op) ==
  /\ nl_step = "Done"
  /\ nl_selection = NoSelection
  /\ nl_joins # <<>>
  /\ LastJoin.op = op

\* What the analysis reports for the query without its last join.
Before == nullable_for(Front(nl_joins), NoSelection)

\* The resolver before the last join and after it.
PreviousResolver == join_loop(from_base(1), Front(nl_joins), 1)

Resolver == join_loop(from_base(1), nl_joins, 1)

\* The entries of a resolver.
RECURSIVE Entries(_)
Entries(self) ==
  {<<self.table_id, self.nullable>>}
  \cup UNION {Entries(self.leafs[i]) : i \in DOMAIN self.leafs}

TablesOf(self) == {e[1] : e \in Entries(self)}

\* C26: after a LEFT OUTER JOIN the joined table is a leaf of the resolver
\* with nullable Some(true), all of its columns are reported nullable, and
\* the columns of the tables before it are reported as without the join.
C26_LeftJoinedNullable ==
  EndsWith("LeftOuter") =>
    /\ <<Joined, Some(TRUE)>> \in Entries(Resolver)
    /\ \A c \in Columns : nl_nullable[<<Joined, c>>]
    /\ \A t \in 1..(Joined - 1), c \in Columns :
         nl_nullable[<<t, c>>] = Before[<<t, c>>]

\* C30: after a RIGHT OUTER JOIN the joined table is the root of the
\* resolver with nullable Some(false), and every table of the resolver before
\* the join is reported nullable.
C30_RightJoinReroots ==
  EndsWith("RightOuter") =>
    /\ Resolver.table_id = Joined
    /\ Resolver.nullable = Some(FALSE)
    /\ \A t \in TablesOf(PreviousResolver), c \in Columns :
         nl_nullable[<<t, c>>]

\* The conjuncts of a WHERE that recursing through AND reaches.
RECURSIVE Conjuncts(_)
Conjuncts(expr) ==
  IF expr = NoSelection THEN {}
  ELSE IF expr[1] = "Bin" /\ expr[2] = "And"
  THEN Conjuncts(expr[3]) \cup Conjuncts(expr[4])
  ELSE {expr}

\* The columns of the conjuncts `col IS NOT NULL`.
NotNullColumns(selection) ==
  {e[2] : e \in {x \in Conjuncts(selection) : x[1] = "IsNotNull"}}

\* The tables on the paths from the root of a resolver to the entries of a
\* table, the table included.
RECURSIVE PathTo(_, _)
PathTo(self, table_id) ==
  IF self.table_id = table_id THEN {table_id}
  ELSE LET below == UNION {PathTo(self.leafs[i], table_id) :
                             i \in DOMAIN self.leafs}
       IN  IF below = {} THEN {} ELSE below \cup {self.table_id}

Path(table_id) ==
  IF nl_joins = <<>> THEN {table_id} ELSE PathTo(Resolver, table_id)

\* The WHERE without its conjuncts `col IS NOT NULL`.
RECURSIVE Others(_)
Others(expr) ==
  IF expr = NoSelection \/ expr[1] = "IsNotNull" THEN NoSelection
  ELSE IF expr[1] = "Bin" /\ expr[2] = "And"
  THEN IF Others(expr[3]) = NoSelection THEN Others(expr[4])
       ELSE IF Others(expr[4]) = NoSelection THEN Others(expr[3])
       ELSE BinaryOp(Others(expr[3]), "And", Others(expr[4]))
  ELSE expr

\* C27: a conjunct `col IS NOT NULL` makes col reported not-null, and no
\* column that the catalog declares NOT NULL is reported nullable for col's
\* table or for a table on the path from it to the base.
C27_PropagatesToBase ==
  nl_step = "Done" =>
    \A col \in NotNullColumns(nl_selection) :
      /\ ~nl_nullable[<<col[2], col[3]>>]
      /\ \A u \in Path(col[2]) \cup {col[2]}, c \in Columns :
           nl_nullable[<<u, c>>] => catalog_nullable(c)

\* The entries a resolver holds for a table.
RECURSIVE Count(_, _)
RECURSIVE CountLeafs(_, _, _)
Count(self, table_id) ==
  (IF self.table_id = table_id THEN 1 ELSE 0) + CountLeafs(self.leafs, 1, table_id)

CountLeafs(leafs, i, table_id) ==
  IF i > Len(leafs) THEN 0
  ELSE Count(leafs[i], table_id) + CountLeafs(leafs, i + 1, table_id)

Single(table_id) == nl_joins = <<>> \/ Count(Resolver, table_id) <= 1

\* C27, amended: a conjunct `col IS NOT NULL` makes col reported not-null;
\* where col's table has one entry in the resolver its columns fall back to
\* the catalog; every other table on the path from it to the base that has
\* one entry is reported as without the conjunct.
C27_OnlyOwnTable ==
  nl_step = "Done" =>
    \A col \in NotNullColumns(nl_selection) :
      /\ ~nl_nullable[<<col[2], col[3]>>]
      /\ Single(col[2]) =>
           \A c \in Columns : nl_nullable[<<col[2], c>>] => catalog_nullable(c)
      /\ \A u \in Path(col[2]) \ {col[2]}, c \in Columns :
           Single(u) =>
             nl_nullable[<<u, c>>]
               = nullable_for(nl_joins, Others(nl_selection))[<<u, c>>]

\* `pl.v IS NOT NULL` on a table that is left-joined to a left-joined table:
\* the table between it and the base stays nullable.
C27_Witness ==
  /\ nl_step = "Done"
  /\ Len(nl_joins) = 2
  /\ \A i \in 1..2 : nl_joins[i] = Join("LeftOuter", "On", {i, i + 1})
  /\ nl_selection = IsNotNull(CompoundIdentifier(3, "v"))
  /\ Path(3) = {1, 2, 3}
  /\ nl_nullable[<<2, "k">>]
  /\ ~nl_nullable[<<3, "k">>]

\* The columns that `col IS NOT NULL` and `col = <literal>` conjuncts name.
RECURSIVE Sanctioned(_)
Sanctioned(expr) ==
  IF expr = NoSelection THEN {}
  ELSE CASE expr[1] = "IsNotNull" -> {expr[2]}
         [] expr[1] = "Bin" /\ expr[2] = "Eq" -> {expr[3]}
         [] expr[1] = "Bin" /\ expr[2] = "And" ->
              Sanctioned(expr[3]) \cup Sanctioned(expr[4])
         [] OTHER -> {}

\* C28: a WHERE in which recursing through AND reaches no `col IS NOT NULL`
\* and no `col = <non-null>` changes the nullability of no column.
C28_OnlyNotNullAndEq ==
  nl_step = "Done" /\ Sanctioned(nl_selection) = {} =>
    nl_nullable = nullable_for(nl_joins, NoSelection)

\* C29: after an INNER JOIN that attaches the joined table to a table
\* reported nullable, the joined table is reported nullable, and no column of
\* an earlier table that was reported nullable is reported not-null.
RECURSIVE ParentsOf(_, _)
ParentsOf(self, table_id) ==
  (IF \E i \in DOMAIN self.leafs : self.leafs[i].table_id = table_id
   THEN {self.table_id} ELSE {})
  \cup UNION {ParentsOf(self.leafs[i], table_id) : i \in DOMAIN self.leafs}

C29_InnerKeepsNullable ==
  EndsWith("Inner") =>
    /\ (\E u \in ParentsOf(Resolver, Joined) : Before[<<u, "k">>])
         => \A c \in Columns : nl_nullable[<<Joined, c>>]
    /\ \A t \in 1..(Joined - 1), c \in Columns :
         Before[<<t, c>>] => nl_nullable[<<t, c>>]

\* The WAL the report of the analysed query was read from.
Wal == final_wal(nl_joins, nl_selection)

\* The lookup in which the latest entry of the table decides whatever it says.
LatestEntryWins(wal, table_id, column_id) ==
  IF nullable_for_col(wal, table_id, column_id) # NoneB
  THEN nullable_for_col(wal, table_id, column_id)[1]
  ELSE IF nullable_for_table(wal, table_id) # NoneB
  THEN nullable_for_table(wal, table_id)[1]
  ELSE catalog_nullable(column_id)

\* C31: a column is reported with the latest WAL entry of the column, else
\* with the latest WAL entry of its table, else with its catalog nullability.
C31_LatestEntryWins ==
  nl_step = "Done" =>
    \A p \in DOMAIN nl_nullable :
      nl_nullable[p] = LatestEntryWins(Wal, p[1], p[2])

\* C31, amended: a column is reported with the latest WAL entry of the
\* column; else nullable when the latest WAL entry of its table says
\* nullable; else with its catalog nullability.
C31_TableEntryOnlyNullable ==
  nl_step = "Done" =>
    \A p \in DOMAIN nl_nullable :
      nl_nullable[p] =
        IF nullable_for_col(Wal, p[1], p[2]) # NoneB
        THEN nullable_for_col(Wal, p[1], p[2])[1]
        ELSE \/ nullable_for_table(Wal, p[1]) = Some(TRUE)
             \/ catalog_nullable(p[2])

\* The three cases in one report: a column entry decides t1.v, a not-null
\* table entry leaves t2.v to the catalog, a nullable table entry decides t3.k.
C31_Witness ==
  /\ nl_step = "Done"
  /\ Len(nl_joins) = 2
  /\ nullable_for_col(Wal, 1, "v") = Some(FALSE) /\ ~nl_nullable[<<1, "v">>]
  /\ nullable_for_col(Wal, 2, "v") = NoneB
  /\ nullable_for_table(Wal, 2) = Some(FALSE) /\ nl_nullable[<<2, "v">>]
  /\ nullable_for_col(Wal, 3, "k") = NoneB
  /\ nullable_for_table(Wal, 3) = Some(TRUE) /\ nl_nullable[<<3, "k">>]

\* Position i of an arm can hold NULL as far as the analysis of the arm says.
ArmNullable(a, i) == unwrap_or(rp_nullables[a][i].value, TRUE)

\* C32: a set operation reports position i nullable exactly when position i
\* is nullable in at least one arm, whatever the order of the arms and
\* whether or not the columns at the position are named.
C32_OrOfArms ==
  rp_step = "Done" =>
    \A i \in DOMAIN rp_result :
      rp_result[i] = \E a \in DOMAIN rp_nullables : ArmNullable(a, i)

\* The flattened result the requested names are looked up in.
Flattened == flatten(rp_nullables)

Requested == describe(rp_arms)

Matches(col_name) ==
  {j \in DOMAIN Flattened : Flattened[j].column_name = Some(col_name)}

\* The arms with every unqualified identifier qualified by the first table.
Qualified(arms) ==
  [a \in DOMAIN arms |->
     [i \in DOMAIN arms[a] |->
        IF arms[a][i][1] = "Ident"
        THEN CompoundIdentifier(1, arms[a][i][2])
        ELSE arms[a][i]]]

\* C33: a requested name that matches more than one column is reported with
\* the left-most matching column.
C33_LeftMostMatch ==
  rp_step = "Done" =>
    \A i \in DOMAIN rp_result :
      Matches(Requested[i]) # {} =>
        rp_result[i] =
          unwrap_or(Flattened[l_find_index(Flattened, Requested[i])[1]].value,
                    TRUE)

\* C33, amended: a requested name that matches more than one column is
\* reported with the column at the position of the request, and one that
\* matches a single column with that column; an unqualified column reference
\* is read as the column of the first table that has it.
C33_PositionalMatch ==
  rp_step = "Done" =>
    /\ \A i \in DOMAIN rp_result :
         /\ Cardinality(Matches(Requested[i])) > 1 =>
              rp_result[i] = unwrap_or(Flattened[i].value, TRUE)
         /\ Cardinality(Matches(Requested[i])) = 1 =>
              \A j \in Matches(Requested[i]) :
                rp_result[i] = unwrap_or(Flattened[j].value, TRUE)
    /\ rp_nullables =
         set_expr(Qualified(rp_arms), Len(rp_arms), <<>>, rp_joins)

\* `SELECT k, t2.k FROM t1 LEFT JOIN t2`: both requested names are `k`, the
\* second one is reported with t2.k.
C33_Witness ==
  /\ rp_step = "Done"
  /\ rp_arms = <<<<Identifier("k"), CompoundIdentifier(2, "k")>>>>
  /\ Requested = <<"k", "k">>
  /\ rp_result = <<FALSE, TRUE>>

\* C34: the analysis of a parsed statement ends with a vector that has one
\* entry per requested name, or with an error; it never panics.
C34_NeverPanics ==
  /\ rp_step # "Panicked"
  /\ rp_step = "Done" => Len(rp_result) = Len(Requested)

\* The column a projection item refers to, if it is a column reference.
ColumnOf(item) ==
  CASE item[1] = "Col" -> <<item[2], item[3]>>
    [] item[1] = "Ident" -> find_col_by_idents(1..(Len(rp_joins) + 1), item[2])
    [] OTHER -> <<>>

\* What arm a of the statement was analysed to: the right-most arm is the
\* first one in rp_nullables.
Analysed(a) == rp_nullables[Len(rp_arms) - a + 1]

\* C40: a column of the enclosing query is reported as the joins and the
\* WHERE of the enclosing query alone make it, whatever a subquery over
\* tables of the same names has learned.
C40_SubqueryIsolated ==
  rp_step = "Done" =>
    \A a \in DOMAIN rp_arms : \A i \in DOMAIN rp_arms[a] :
      ColumnOf(rp_arms[a][i]) # <<>> =>
        Analysed(a)[i].value =
          Some(nullable_for(rp_joins, NoSelection)[ColumnOf(rp_arms[a][i])])

\* The predicate of request r asks for no response.
ZeroResponses(r) == reqs[r].pipe_until \in {"None", "NumResponses0"}

\* C35: a request that expects no response is never on the backlog and is
\* never the request being handled, so no frame is ever forwarded to it.
C35_ZeroResponseOffBacklog ==
  \A r \in 1..Len(reqs) :
    ZeroResponses(r) =>
      /\ \A i \in DOMAIN back_log : back_log[i] # r
      /\ currently_handling # r
      /\ fwd[r] = 0

\* C36: the statement ids handed out on a connection, by the executor's
\* prepare and by the pipelined engine alike, start at the named start id and
\* increase strictly, so none is handed out twice, and none is the id of the
\* unnamed statement.
C36_IdsStrictlyIncreasing ==
  /\ stmt_ids # <<>> => stmt_ids[1] = NAMED_START
  /\ \A i, j \in DOMAIN stmt_ids : i < j => stmt_ids[i] < stmt_ids[j]
  /\ \A i \in DOMAIN stmt_ids : stmt_ids[i] # UNNAMED
  /\ \A sql \in Sqls :
       cache_statement[sql] # 0 =>
         \E i \in DOMAIN stmt_ids : stmt_ids[i] = cache_statement[sql]

\* The executor has prepared a statement before the pipeline was made and
\* the pipeline has sent a Parse of its own.
C36_Witness ==
  /\ Len(stmt_ids) >= 2
  /\ \E sql \in Sqls : cache_statement[sql] = stmt_ids[1] /\ parse_sent[sql] = 0
  /\ \E sql \in Sqls : parse_sent[sql] > 0

\* ------------------------------------------------------------------------
\* C37: every query ends for its caller
\* ------------------------------------------------------------------------
\* The caller of query q has its end-of-stream marker or an error.
Delivered(q) ==
  /\ results[q] # <<>>
  /\ results[q][Len(results[q])].kind \in {"None", "Err"}

\* C37: with a server that answers every flushed message, every query the
\* running engine holds eventually delivers its end-of-stream marker or an
\* error to its caller.
C37_EveryQueryEnds ==
  \A q \in 1..MaxQueries :
    (running /\ q \in 1..Len(queries)) ~> Delivered(q)

\* ------------------------------------------------------------------------
\* C38: no frame is lost when a command interrupts the visit of a query
\* ------------------------------------------------------------------------
\* Frames leave the read buffer in this step.
Consumed ==
  \E n \in 1..Len(inbound) : inbound' = SubSeq(inbound, n + 1, Len(inbound))

\* The query the loop is at makes a state transition or hands items to its
\* caller in this step.
Transition ==
  \/ queries'[cur] # queries[cur]
  \/ results'[cur] # results[cur]

\* C38: frames are read only in a step in which the query that reads them
\* makes a state transition or hands them to its caller, also when a command
\* is received while that query's read is suspended: no frame is lost to a
\* dropped future.
C38_EveryFrameOneTransition == [][Consumed => Transition]_vars

\* ------------------------------------------------------------------------
\* C39: the recorded transaction status when the connection is quiet
\* ------------------------------------------------------------------------
\* No statement waits for the server and no operation awaits an answer.
NoRequestOutstanding == txq = <<>> /\ txop = "none"

\* C39: whenever no request is outstanding, the transaction status the
\* connection has recorded is the status of the last ReadyForQuery the
\* server sent, also after a ROLLBACK queued by a dropped guard and after a
\* statement that failed.
C39_StatusIsLastReadyForQuery ==
  NoRequestOutstanding => transaction_status = srvTx

====
